----------------------------- MODULE Membership -----------------------------
(***************************************************************************)
(* The bitemporal table universe_membership: who writes spans into it and  *)
(* what a point-in-time read as of a day answers.                          *)
(*                                                                         *)
(* A row says that a symbol is in a universe from `from` to `to` (Open: no *)
(* end), and that this was known from day `kd` on.  Its key is symbol,     *)
(* universe, from and kd, so a span can be re-stated with a later kd.      *)
(* Three jobs write: ingest_delisting lands the two sourced rows of a      *)
(* delisted name, onboard_symbol lands a name in "listed", and the batch   *)
(* ingest_universe lands the names with bars in "bist_all".  Nothing is    *)
(* ever deleted.  Days are 1..LastDay.                                     *)
(***************************************************************************)
EXTENDS Naturals, FiniteSets

CONSTANTS Symbols,
          Classes,   \* universe classes derived from a sector
          NoClass,   \* a NULL universe_class
          LastDay,   \* bound on time
          Starts,    \* the window starts an operator passes to a job
          Listing,   \* [Symbols -> day]: the name's first listed day
          MaxRows    \* bound on the rows landed

Days == 1 .. LastDay

ASSUME LastDayAssumption == LastDay \in Nat \ {0}
ASSUME StartsAssumption  == Starts \subseteq Days
ASSUME ListingAssumption == Listing \in [Symbols -> Days]
ASSUME NoClassAssumption == NoClass \notin Classes

Open   == 0   \* valid_to is NULL
Never  == 0   \* no delisting was announced

Universes == {"listed", "bist_all"}

VARIABLES rows,       \* universe_membership
          today,
          sectors,    \* [Symbols -> SUBSET Classes]: the IN_SECTOR edges, as classes
          last,       \* [Symbols -> last trading day or Never]
          announced   \* [Symbols -> day the delisting was announced or Never]

vars == <<rows, today, sectors, last, announced>>

Row == [symbol : Symbols, universe : Universes, class : Classes \cup {NoClass},
        from : Days, to : Days \cup {Open}, kd : Days,
        source : {"golden", "graph"}]

(* The primary key.                                                        *)
Key(r) == <<r.symbol, r.universe, r.from, r.kd>>

TypeOK ==
    /\ rows \subseteq Row
    /\ today \in Days
    /\ sectors \in [Symbols -> SUBSET Classes]
    /\ last \in [Symbols -> Days \cup {Never}]
    /\ announced \in [Symbols -> Days \cup {Never}]

Init ==
    /\ rows = {}
    /\ today = 1
    /\ sectors = [s \in Symbols |-> {}]
    /\ last = [s \in Symbols |-> Never]
    /\ announced = [s \in Symbols |-> Never]

(***************************************************************************)
(* The read path.                                                          *)
(***************************************************************************)

(* Mutant of Visible: the knowledge-date filter is forgotten.               *)
VisibleAnytime(u, a) == {r \in rows : r.universe = u}

(* universe = ? AND knowledge_date <= as_of                                *)
Visible(u, a) == {r \in rows : r.universe = u /\ r.kd <= a}

SameSpan(r, q) == r.symbol = q.symbol /\ r.universe = q.universe /\ r.from = q.from

(* Mutant of Current: every visible version applies, not only the latest.   *)
EveryVersion(u, a) == Visible(u, a)

(* ROW_NUMBER() OVER (PARTITION BY symbol, universe, valid_from ORDER BY   *)
(* knowledge_date DESC) = 1: the latest visible version of each span.      *)
Current(u, a) ==
    {r \in Visible(u, a) : \A q \in Visible(u, a) : SameSpan(q, r) => q.kd <= r.kd}

(* Mutant of Covers: the last trading day falls out of the window.          *)
CoversShort(r, a) == r.from <= a /\ (r.to = Open \/ r.to > a)

(* valid_from <= as_of AND (valid_to IS NULL OR valid_to >= as_of)         *)
Covers(r, a) == r.from <= a /\ (r.to = Open \/ r.to >= a)

(* PITAccess(a).universe(u), the symbols of it.                            *)
Members(u, a) == {r.symbol : r \in {q \in Current(u, a) : Covers(q, a)}}

(* The rows PITAccess(a).series("universe_membership", symbol=s,           *)
(* latest_by="valid_from") returns: every visible vintage of every         *)
(* universe, at the greatest valid_from.                                   *)
LatestSpanRows(s, a) ==
    LET known == {r \in rows : r.symbol = s /\ r.kd <= a}
    IN  {r \in known : \A q \in known : q.from <= r.from}

(* _universe_class takes the first non-null class of those rows in scan    *)
(* order, which no ORDER BY fixes: any of these.                           *)
FitClasses(s, a) == {r.class : r \in LatestSpanRows(s, a)} \ {NoClass}

(***************************************************************************)
(* The write path.                                                         *)
(***************************************************************************)

(* write_parquet of one frame with no repeated key: a row whose key is     *)
(* taken is ignored.                                                       *)
Land(new) ==
    /\ rows' = rows \cup {r \in new : \A q \in rows : Key(q) # Key(r)}
    /\ Cardinality(rows') <= MaxRows

GoldenRow(s, c, to, kd) ==
    [symbol |-> s, universe |-> "listed", class |-> c, from |-> Listing[s],
     to |-> to, kd |-> kd, source |-> "golden"]

(* Mutant of SourcedSpans: the closed span is known from its first day.     *)
ForesightSpans(s, c) == {GoldenRow(s, c, last[s], Listing[s])}

(* The two rows a delisting golden carries: the span as open from the      *)
(* listing on, and closed as known when the delisting was announced.       *)
SourcedSpans(s, c) ==
    {GoldenRow(s, c, Open, Listing[s]), GoldenRow(s, c, last[s], announced[s])}

(* Mutant of IngestDelisting: only the correction is landed.                *)
IngestClosedOnly(s) ==
    /\ announced[s] # Never
    /\ \E c \in Classes \cup {NoClass} : Land({r \in SourcedSpans(s, c) : r.to # Open})
    /\ UNCHANGED <<today, sectors, last, announced>>

(* Mutant of IngestDelisting: a golden whose announcement is not dated yet  *)
(* is landed as well, its closed row without a knowledge date.              *)
IngestUndated(s) ==
    /\ \E c \in Classes \cup {NoClass} : Land(SourcedSpans(s, c))
    /\ UNCHANGED <<today, sectors, last, announced>>

(* ingest_delisting: any time after the announcement, as often as wanted.  *)
IngestDelisting(s) ==
    /\ announced[s] # Never
    /\ \E c \in Classes \cup {NoClass} : Land(SourcedSpans(s, c))
    /\ UNCHANGED <<today, sectors, last, announced>>

(* The vendor has daily bars of the name between `start` and today.        *)
HasBars(s, start) ==
    /\ Listing[s] <= today
    /\ start <= today
    /\ announced[s] # Never => last[s] >= start

(* The open spans ingest_universe_class builds.  graph_sector_resolver     *)
(* reads one IN_SECTOR edge, LIMIT 1; a name without one is refused.       *)
DerivedSpans(names, u, start, k) ==
    {{[symbol |-> s, universe |-> u, class |-> class[s], from |-> start,
       to |-> Open, kd |-> k, source |-> "graph"] : s \in DOMAIN class} :
        class \in {f \in [{s \in names : sectors[s] # {}} -> Classes] :
                        \A s \in DOMAIN f : f[s] \in sectors[s]}}

(* onboard_symbol: one name into "listed", from the start of its price     *)
(* window, known today.  Without bars it returns before the class step.    *)
OnboardSymbol(s, start) ==
    /\ HasBars(s, start)
    /\ \E new \in DerivedSpans({s}, "listed", start, today) : Land(new)
    /\ UNCHANGED <<today, sectors, last, announced>>

(* scripts/ingest_universe.py: the names whose prices landed (a name whose *)
(* pull failed is skipped) into "bist_all"; the window start is passed     *)
(* both as valid_from and as knowledge_date.                               *)
IngestUniverse(start) ==
    /\ \E landed \in SUBSET {s \in Symbols : HasBars(s, start)} :
         \E new \in DerivedSpans(landed, "bist_all", start, start) : Land(new)
    /\ UNCHANGED <<today, sectors, last, announced>>

(* load_company_sectors MERGEs the edge to the sector the taxonomy gives   *)
(* now; an edge to an earlier sector stays.                                *)
LinkSector(s, c) ==
    /\ sectors' = [sectors EXCEPT ![s] = @ \cup {c}]
    /\ UNCHANGED <<rows, today, last, announced>>

(* Borsa Istanbul announces the last trading day of a listed name.         *)
Announce(s, day) ==
    /\ announced[s] = Never
    /\ Listing[s] < today
    /\ today <= day
    /\ last' = [last EXCEPT ![s] = day]
    /\ announced' = [announced EXCEPT ![s] = today]
    /\ UNCHANGED <<rows, today, sectors>>

Tick ==
    /\ today < LastDay
    /\ today' = today + 1
    /\ UNCHANGED <<rows, sectors, last, announced>>

Next ==
    \/ Tick
    \/ \E s \in Symbols : IngestDelisting(s)
    \/ \E s \in Symbols, start \in Starts : OnboardSymbol(s, start)
    \/ \E start \in Starts : IngestUniverse(start)
    \/ \E s \in Symbols, c \in Classes : LinkSector(s, c)
    \/ \E s \in Symbols, day \in Days : Announce(s, day)

Spec == Init /\ [][Next]_vars

(***************************************************************************)
(* Properties.                                                             *)
(***************************************************************************)

(* One version per span and vintage, although the same job is re-run with  *)
(* another class in the graph: ROW_NUMBER has no ties, a read is a         *)
(* function of its as-of day.                                              *)
OneVersionPerVintage == \A r, q \in rows : Key(r) = Key(q) => r = q

(* Landing knowledge of day k changes no read dated before k, neither the  *)
(* universe nor the class a fit would use.                                 *)
NoLookAhead ==
    [][LET landed == rows' \ rows
       IN  landed # {} =>
             \A a \in Days : (\A r \in landed : r.kd > a) =>
                 /\ \A u \in Universes : Members(u, a)' = Members(u, a)
                 /\ \A s \in Symbols : FitClasses(s, a)' = FitClasses(s, a)]_rows

(* The delisting of s has been landed.                                     *)
DelistingLanded(s) == \E r \in rows : r.symbol = s /\ r.to # Open

(* Dead names are retained: once a delisting is landed, every read dated   *)
(* between listing and last trading day still contains the name, whatever  *)
(* was landed before or after it and in which order.                       *)
DeadNamesRetained ==
    \A s \in Symbols : DelistingLanded(s) =>
        \A a \in Listing[s] .. last[s] : s \in Members("listed", a)

(* No read uses a closed window before its delisting was announced.        *)
NoDelistingForesight ==
    \A a \in Days : \A r \in Current("listed", a) :
        r.to # Open => announced[r.symbol] # Never /\ announced[r.symbol] <= a

OnlySourced(s) ==
    \A r \in rows : (r.symbol = s /\ r.universe = "listed") => r.source = "golden"

(* A delisted name whose spans all come from its golden is out of every    *)
(* read dated after its last trading day (and before its listing).         *)
DelistedNameLeaves ==
    \A s \in Symbols : (DelistingLanded(s) /\ OnlySourced(s)) =>
        \A a \in Days : (a < Listing[s] \/ a > last[s]) => s \notin Members("listed", a)

(* What makes the properties above inductive.  Only a delisting golden     *)
(* closes a span, and its rows carry the announced dates; its open row, or *)
(* one under the same key, is there beside the closed one.                 *)
ClosedIsSourced ==
    \A r \in rows : r.to # Open =>
        /\ announced[r.symbol] # Never
        /\ r.universe = "listed"
        /\ r.from = Listing[r.symbol]
        /\ r.to = last[r.symbol]
        /\ r.kd = announced[r.symbol]

GoldenIsOpenOrClosed ==
    \A r \in rows : r.source = "golden" =>
        r.from = Listing[r.symbol] /\ (r.to = Open => r.kd = Listing[r.symbol])

AnnouncedWhileListed ==
    \A s \in Symbols : announced[s] # Never =>
        Listing[s] < announced[s] /\ announced[s] <= last[s]

OpenVersion(s, r) ==
    /\ r.symbol = s
    /\ r.universe = "listed"
    /\ r.from = Listing[s]
    /\ r.kd = Listing[s]
    /\ r.to = Open

OpenBesideClosed ==
    \A s \in Symbols : DelistingLanded(s) => \E r \in rows : OpenVersion(s, r)

Sourced ==
    /\ TypeOK
    /\ OneVersionPerVintage
    /\ ClosedIsSourced
    /\ GoldenIsOpenOrClosed
    /\ AnnouncedWhileListed
    /\ OpenBesideClosed
=============================================================================
