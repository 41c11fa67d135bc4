------------------------- MODULE EventsCrawlProofs -------------------------
(***************************************************************************)
(* Proofs about EventsCrawl, for every set of records, every window and    *)
(* every bound: what a crawl that exits 0 promises of both tables.  That a *)
(* crawl ends is a liveness property and is left to the model checker.     *)
(***************************************************************************)
EXTENDS EventsCrawl, TLAPS

Running == at \in {"get", "land", "seed"}

(* The records of the day's first s - 1 files that were there at the start.*)
KnownBefore(s) ==
    {r \in Records : /\ FileOf[r][1] = day /\ FileOf[r][2] < s
                     /\ FileOf[r] \in crawl.known}

Landed(d) == Landable(d) \subseteq events \cap targets

(* Where the crawl is agrees with the day and file it has come to.         *)
Placed ==
    /\ Running => day <= crawl.last
    /\ at \in {"land", "seed"} => slot = Slots + 1
    /\ at = "day" => slot = 1
    /\ at # "idle" => code = "none"

(* What was fetched of the day covers what was known of it.                *)
Fetching ==
    /\ crawl.known \subseteq published
    /\ Running => KnownBefore(slot) \subseteq batch
    /\ at = "seed" => EventRows \subseteq events

(* The days behind the crawl are landed, unless it skips or missed one.    *)
Behind ==
    (at # "idle" /\ ~crawl.skip /\ ~missed) =>
        \A d \in Window : d < day => Landed(d)

CrawlInv == TypeOK /\ Placed /\ Fetching /\ TargetsHaveEvent /\ Behind /\ OkMeansLanded

(* Every action is a step of the source, of the crawl or of its start.     *)
LEMMA FileFacts ==
    /\ LastDay \in Nat \ {0} /\ Slots \in Nat \ {0}
    /\ MaxRetries \in Nat /\ BurstAbort \in Nat \ {0} /\ MaxCrawls \in Nat
    /\ Typed \subseteq Records
    /\ \A r \in Records : /\ FileOf[r] \in Files
                          /\ FileOf[r] = <<FileOf[r][1], FileOf[r][2]>>
                          /\ FileOf[r][1] \in 1 .. LastDay
                          /\ FileOf[r][2] \in 1 .. Slots
BY CrawlAssumption DEF Files, Days

LEMMA InitCrawl == Init => CrawlInv
<1> SUFFICES ASSUME Init PROVE CrawlInv
    OBVIOUS
<1>1. TypeOK
    <2>1. crawl \in Crawls
        BY FileFacts DEF Init, Crawls, Days
    <2>2. /\ day \in 1 .. LastDay + 1 /\ slot \in 1 .. Slots + 1
          /\ attempt \in 0 .. MaxRetries /\ fails \in 0 .. BurstAbort - 1
          /\ crawls \in 0 .. MaxCrawls
        BY FileFacts DEF Init
    <2> QED
        BY <2>1, <2>2 DEF Init, TypeOK
<1>2. Placed /\ TargetsHaveEvent /\ Behind /\ OkMeansLanded
    BY DEF Init, Placed, Running, TargetsHaveEvent, Behind, OkMeansLanded
<1>3. Fetching
    BY DEF Init, Fetching, Running
<1> QED
    BY <1>1, <1>2, <1>3 DEF CrawlInv

LEMMA TypeStep == CrawlInv /\ [Next]_vars => TypeOK'
<1> SUFFICES ASSUME CrawlInv, [Next]_vars PROVE TypeOK'
    OBVIOUS
<1> USE FileFacts DEF CrawlInv, TypeOK, Days
<1>1. CASE NextDay
    BY <1>1 DEF NextDay, storeVars, dayVars
<1>2. ASSUME NEW u \in Files, Publish(u) PROVE TypeOK'
    BY <1>2 DEF Publish, storeVars, dayVars
<1>3. ASSUME NEW first \in Days, NEW last \in Days, NEW skip \in BOOLEAN,
             Start(first, last, skip)
      PROVE  TypeOK'
    <2>1. crawl' \in Crawls
        BY <1>3 DEF Start, Crawls
    <2>2. /\ day' \in 1 .. LastDay + 1 /\ slot' \in 1 .. Slots + 1
          /\ attempt' \in 0 .. MaxRetries /\ fails' \in 0 .. BurstAbort - 1
          /\ crawls' \in 0 .. MaxCrawls
        BY <1>3 DEF Start
    <2> QED
        BY <1>3, <2>1, <2>2 DEF Start, worldVars, storeVars
<1>4. CASE EndOfWindow
    BY <1>4 DEF EndOfWindow, End, worldVars, storeVars
<1>5. CASE SkipDay
    <2>1. day + 1 \in 1 .. LastDay + 1
        BY <1>5 DEF SkipDay, Crawls
    <2> QED
        BY <1>5, <2>1 DEF SkipDay, PastDay, worldVars, storeVars
<1>6. CASE BeginDay
    BY <1>6 DEF BeginDay, worldVars, storeVars, dayVars
<1>7. CASE Get
    <2>1. Fetched \subseteq Records
        BY DEF Fetched, In
    <2> QED
        BY <1>7, <2>1 DEF Get, Getting, worldVars, storeVars
<1>8. CASE Retry
    BY <1>8 DEF Retry, Getting, MayRetry, worldVars, storeVars
<1>9. CASE Unreachable
    <2>1. day + 1 \in 1 .. LastDay + 1
        BY <1>9 DEF Unreachable, Getting, Placed, Running, Crawls
    <2>2. CASE fails + 1 >= BurstAbort
        BY <1>9, <2>2 DEF Unreachable, End, worldVars, storeVars
    <2>3. CASE ~(fails + 1 >= BurstAbort)
        BY <1>9, <2>1, <2>3 DEF Unreachable, PastDay, worldVars, storeVars
    <2> QED
        BY <2>2, <2>3
<1>10. CASE Collected
    BY <1>10 DEF Collected, worldVars, storeVars, dayVars
<1>11. CASE LandEvents
    BY <1>11 DEF LandEvents, EventRows, worldVars, dayVars
<1>12. CASE SeedTargets
    <2>1. day + 1 \in 1 .. LastDay + 1
        BY <1>12 DEF SeedTargets, Placed, Running, Crawls
    <2>2. targets' \subseteq Records
        BY <1>12 DEF SeedTargets, TargetRows, EventRows
    <2> QED
        BY <1>12, <2>1, <2>2 DEF SeedTargets, PastDay, worldVars
<1>13. CASE Die
    BY <1>13 DEF Die, End, worldVars, storeVars
<1>14. CASE UNCHANGED vars
    BY <1>14 DEF vars, worldVars, storeVars, dayVars
<1> QED
    BY <1>1, <1>2, <1>3, <1>4, <1>5, <1>6, <1>7, <1>8, <1>9, <1>10, <1>11, <1>12,
       <1>13, <1>14 DEF Next, Step

(* A step that leaves the crawl, its day and both tables alone.            *)
LEMMA QuietStep ==
    ASSUME CrawlInv, UNCHANGED <<storeVars, at, crawl, dayVars, fails, missed, code>>,
           published \subseteq published'
    PROVE  Placed' /\ Fetching' /\ TargetsHaveEvent' /\ Behind' /\ OkMeansLanded'
BY DEF CrawlInv, storeVars, dayVars, Placed, Running, Fetching, KnownBefore, EventRows,
       TargetsHaveEvent, Behind, OkMeansLanded, Window, Landed, Landable

(* A step of the crawl that lands nothing and stays with its window: the   *)
(* days behind it are as landed as they were.                              *)
LEMMA BehindKept ==
    ASSUME CrawlInv, UNCHANGED <<storeVars, crawl>>, at # "idle", code' # "ok",
           (at' # "idle" /\ ~missed') => ~missed /\ day' = day
    PROVE  Behind' /\ OkMeansLanded'
BY DEF CrawlInv, storeVars, Behind, OkMeansLanded, Window, Landed, Landable

LEMMA PlacedStep == CrawlInv /\ [Next]_vars => Placed'
<1> SUFFICES ASSUME CrawlInv, [Next]_vars PROVE Placed'
    OBVIOUS
<1> USE FileFacts DEF CrawlInv, TypeOK, Placed, Running
<1>1. CASE NextDay \/ (\E u \in Files : Publish(u)) \/ UNCHANGED vars
    BY <1>1 DEF NextDay, Publish, vars, dayVars
<1>2. CASE \E first, last \in Days, skip \in BOOLEAN : Start(first, last, skip)
    BY <1>2 DEF Start
<1>3. CASE EndOfWindow \/ Die
    BY <1>3 DEF EndOfWindow, Die, End
<1>4. CASE SkipDay \/ SeedTargets
    BY <1>4 DEF SkipDay, SeedTargets, PastDay
<1>5. CASE BeginDay
    BY <1>5 DEF BeginDay, dayVars
<1>6. CASE Get \/ Retry
    BY <1>6 DEF Get, Retry, Getting
<1>7. CASE Unreachable
    BY <1>7 DEF Unreachable, Getting, End, PastDay
<1>8. CASE Collected
    BY <1>8 DEF Collected, dayVars
<1>9. CASE LandEvents
    BY <1>9 DEF LandEvents, dayVars
<1> QED
    BY <1>1, <1>2, <1>3, <1>4, <1>5, <1>6, <1>7, <1>8, <1>9 DEF Next, Step

(* What a try of a file brings covers what was known of that file.         *)
LEMMA GetFetches ==
    ASSUME CrawlInv, Get
    PROVE  (KnownBefore(slot))' \subseteq batch'
<1> SUFFICES ASSUME NEW r \in Records, r \in (KnownBefore(slot))' PROVE r \in batch'
    BY DEF KnownBefore
<1>1. /\ FileOf[r][1] = day /\ FileOf[r][2] < slot + 1 /\ FileOf[r] \in crawl.known
    BY DEF Get, KnownBefore
<1>2. CASE FileOf[r][2] < slot
    BY <1>1, <1>2 DEF CrawlInv, Fetching, Running, Get, Getting, KnownBefore
<1>3. CASE ~(FileOf[r][2] < slot)
    <2>1. FileOf[r][2] = slot
        BY <1>1, <1>3, FileFacts DEF CrawlInv, TypeOK
    <2>2. FileOf[r] = <<day, slot>>
        BY <1>1, <2>1, FileFacts
    <2> QED
        BY <1>1, <2>2 DEF CrawlInv, Fetching, Get, Fetched, In
<1> QED
    BY <1>2, <1>3

LEMMA FetchingStep == CrawlInv /\ [Next]_vars => Fetching'
<1> SUFFICES ASSUME CrawlInv, [Next]_vars PROVE Fetching'
    OBVIOUS
<1>1. CASE NextDay \/ (\E u \in Files : Publish(u)) \/ UNCHANGED vars
    BY <1>1, QuietStep DEF NextDay, Publish, vars, worldVars, storeVars, dayVars
<1>2. CASE \E first, last \in Days, skip \in BOOLEAN : Start(first, last, skip)
    BY <1>2 DEF Start, Fetching, Running, worldVars
<1>3. CASE EndOfWindow \/ SkipDay \/ Unreachable \/ SeedTargets \/ Die
    BY <1>3 DEF EndOfWindow, SkipDay, Unreachable, SeedTargets, Die, End, CrawlInv,
                Fetching, Running, worldVars
<1>4. CASE BeginDay
    <2>1. slot' = 1
        BY <1>4 DEF BeginDay, CrawlInv, Placed, dayVars
    <2>2. (KnownBefore(slot))' = {}
        BY <2>1, FileFacts DEF KnownBefore
    <2> QED
        BY <1>4, <2>1, <2>2 DEF BeginDay, CrawlInv, Fetching, Running, worldVars
<1>5. CASE Get
    BY <1>5, GetFetches DEF Get, Getting, CrawlInv, Fetching, worldVars
<1>6. CASE Retry \/ Collected \/ LandEvents
    BY <1>6 DEF Retry, Getting, Collected, LandEvents, CrawlInv, Fetching, Running,
                KnownBefore, EventRows, worldVars, storeVars, dayVars
<1> QED
    BY <1>1, <1>2, <1>3, <1>4, <1>5, <1>6 DEF Next, Step

(* A day whose files were all gone through is landed in both tables.       *)
LEMMA SeedLandsDay ==
    ASSUME CrawlInv, SeedTargets
    PROVE  Landable(day) \subseteq events \cap targets'
<1> SUFFICES ASSUME NEW r \in Typed, FileOf[r][1] = day, FileOf[r] \in crawl.known
             PROVE  r \in events /\ r \in targets'
    BY DEF Landable
<1>1. FileOf[r][2] < slot
    BY FileFacts DEF CrawlInv, Placed, SeedTargets
<1>2. r \in EventRows
    BY <1>1, FileFacts DEF CrawlInv, Fetching, Running, SeedTargets, KnownBefore, EventRows
<1> QED
    BY <1>2 DEF CrawlInv, Fetching, SeedTargets, TargetRows

LEMMA TargetsStep == CrawlInv /\ [Next]_vars => TargetsHaveEvent'
<1> SUFFICES ASSUME CrawlInv, [Next]_vars PROVE TargetsHaveEvent'
    OBVIOUS
<1> USE DEF CrawlInv, TargetsHaveEvent
<1>1. CASE UNCHANGED storeVars
    BY <1>1 DEF storeVars
<1>2. CASE LandEvents
    BY <1>2 DEF LandEvents
<1>3. CASE SeedTargets
    BY <1>3 DEF SeedTargets, TargetRows, Fetching
<1> QED
    BY <1>1, <1>2, <1>3 DEF Next, Step, vars, NextDay, Publish, Start, EndOfWindow, SkipDay,
       BeginDay, Get, Retry, Unreachable, Collected, Die

LEMMA BehindStep == CrawlInv /\ [Next]_vars => Behind' /\ OkMeansLanded'
<1> SUFFICES ASSUME CrawlInv, [Next]_vars PROVE Behind' /\ OkMeansLanded'
    OBVIOUS
<1>1. CASE NextDay \/ (\E u \in Files : Publish(u)) \/ UNCHANGED vars
    BY <1>1, QuietStep DEF NextDay, Publish, vars, worldVars, storeVars, dayVars
<1>2. CASE \E first, last \in Days, skip \in BOOLEAN : Start(first, last, skip)
    <2> SUFFICES ASSUME NEW first \in Days, NEW last \in Days, NEW skip \in BOOLEAN,
                        Start(first, last, skip)
                 PROVE  Behind' /\ OkMeansLanded'
        BY <1>2
    <2>1. Window' = first .. last /\ day' = first /\ code' = "none"
        BY DEF Start, Window
    <2>2. \A d \in first .. last : ~(d < first)
        BY DEF Days
    <2> QED
        BY <2>1, <2>2 DEF Behind, OkMeansLanded
<1>3. CASE EndOfWindow
    <2>1. /\ at' = "idle" /\ at # "idle" /\ day > crawl.last
          /\ UNCHANGED <<storeVars, crawl, missed>>
        BY <1>3 DEF EndOfWindow, End
    <2>2. \A d \in Window : d < day
        BY <2>1 DEF Window, CrawlInv, TypeOK, Crawls, Days
    <2> QED
        BY <2>1, <2>2 DEF CrawlInv, Behind, OkMeansLanded, Window, Landed, Landable, storeVars
<1>4. CASE SkipDay
    <2>1. /\ crawl.skip /\ code' # "ok" /\ UNCHANGED crawl
        BY <1>4 DEF SkipDay, Skipped, CrawlInv, Placed
    <2> QED
        BY <2>1 DEF Behind, OkMeansLanded
<1>5. CASE BeginDay \/ Get \/ Retry \/ Collected
    <2>1. /\ UNCHANGED <<storeVars, crawl, day, missed, code>> /\ at # "idle"
        BY <1>5 DEF BeginDay, Get, Retry, Getting, Collected, dayVars
    <2> QED
        BY <2>1, BehindKept DEF CrawlInv, Placed
<1>6. CASE Unreachable
    <2>1. missed' = TRUE
        BY <1>6 DEF Unreachable
    <2> QED
        BY <2>1 DEF Behind, OkMeansLanded
<1>7. CASE LandEvents
    <2>1. /\ UNCHANGED <<targets, crawl, day, missed, code>> /\ at # "idle" /\ code # "ok"
          /\ events \subseteq events'
        BY <1>7 DEF LandEvents, dayVars, CrawlInv, Placed
    <2> QED
        BY <2>1 DEF CrawlInv, Behind, OkMeansLanded, Window, Landed, Landable
<1>8. CASE SeedTargets
    <2>1. /\ UNCHANGED <<events, crawl, missed, code>> /\ at # "idle" /\ code # "ok"
          /\ targets \subseteq targets' /\ day' = day + 1
        BY <1>8 DEF SeedTargets, PastDay, CrawlInv, Placed
    <2>2. OkMeansLanded'
        BY <2>1 DEF OkMeansLanded
    <2>3. ASSUME ~crawl'.skip, ~missed', NEW d \in Window, d < day + 1
          PROVE  Landable(d) \subseteq events \cap targets'
        <3>1. CASE d = day
            BY <1>8, <3>1, SeedLandsDay
        <3>2. CASE d < day
            BY <2>1, <2>3, <3>2 DEF CrawlInv, Behind, Landed
        <3> QED
            BY <2>3, <3>1, <3>2 DEF CrawlInv, TypeOK, Window, Crawls, Days
    <2>4. Behind'
        BY <2>1, <2>3 DEF Behind, Window, Landed, Landable
    <2> QED
        BY <2>2, <2>4
<1>9. CASE Die
    <2>1. code' = "raised" /\ at' = "idle"
        BY <1>9 DEF Die, End
    <2> QED
        BY <2>1 DEF Behind, OkMeansLanded
<1> QED
    BY <1>1, <1>2, <1>3, <1>4, <1>5, <1>6, <1>7, <1>8, <1>9 DEF Next, Step

LEMMA CrawlStep == CrawlInv /\ [Next]_vars => CrawlInv'
BY TypeStep, PlacedStep, FetchingStep, TargetsStep, BehindStep DEF CrawlInv

(* The inductive invariant: the days behind the crawl are landed, what was *)
(* fetched of the current one covers what was known of it.                 *)
THEOREM CrawlAlways == Spec => []CrawlInv
<1>1. Init => CrawlInv
    BY InitCrawl
<1>2. CrawlInv /\ [Next]_vars => CrawlInv'
    BY CrawlStep
<1> QED
    BY <1>1, <1>2, PTL DEF Spec

(* Type correctness of the crawl and of both tables.                       *)
THEOREM CrawlTypeOK == Spec => []TypeOK
BY CrawlAlways, PTL DEF CrawlInv

(* No channel incidence without its event, wherever a crawl died.          *)
THEOREM CrawlTargetsHaveEvent == Spec => []TargetsHaveEvent
BY CrawlAlways, PTL DEF CrawlInv

(* A crawl that exits 0 without a failed day has landed its whole window.  *)
THEOREM CrawlOkMeansLanded == Spec => []OkMeansLanded
BY CrawlAlways, PTL DEF CrawlInv
=============================================================================
