---------------------------- MODULE EventsCrawl ----------------------------
(***************************************************************************)
(* The back-fill of the event stream (scripts/ingest_gdelt.py): a crawl    *)
(* goes day by day through a window, fetches the files of a day one by one *)
(* with retries (ingest/gdelt.py), and lands the day in two writes, first  *)
(* events, then their event_targets (ingest/pipeline.py).  A day whose     *)
(* source cannot be reached is logged and passed over, a burst of them     *)
(* ends the crawl; --skip-existing passes over days with events.           *)
(*                                                                         *)
(* A write is one step (L2Store splits it).  Of a record only matters in   *)
(* which file it is, and whether it is a typed event about Turkey.         *)
(***************************************************************************)
EXTENDS Naturals

CONSTANTS LastDay,     \* bound on time
          Slots,       \* files of a day (96 in the code)
          Records,
          FileOf,      \* [Records -> Files]
          Typed,       \* the records that become events
          MaxRetries,  \* retries of one file after a transient error
          BurstAbort,  \* failed days in a row that end the crawl
          MaxCrawls    \* bound on the crawls

Days == 1 .. LastDay
Files == Days \X (1 .. Slots)

ASSUME CrawlAssumption ==
    /\ LastDay \in Nat \ {0} /\ Slots \in Nat \ {0}
    /\ FileOf \in [Records -> Files] /\ Typed \subseteq Records
    /\ MaxRetries \in Nat /\ BurstAbort \in Nat \ {0} /\ MaxCrawls \in Nat

VARIABLES today,
          published,  \* files the source has
          events,     \* the events table, by record
          targets,    \* records with rows in event_targets
          at,         \* where the crawl is
          crawl,      \* its window and flag, and what was published at its start
          day, slot,  \* the day and the file it has come to
          attempt,    \* failed tries of that file
          batch,      \* records fetched of that day
          fails,      \* failed days in a row
          missed,     \* some day failed
          code,       \* how the last crawl ended
          crawls

worldVars == <<today, published>>
storeVars == <<events, targets>>
dayVars   == <<day, slot, attempt, batch>>
vars == <<worldVars, storeVars, at, crawl, dayVars, fails, missed, code, crawls>>

Crawls == [first : Days, last : Days, skip : BOOLEAN, known : SUBSET Files]

TypeOK ==
    /\ today \in Days /\ published \subseteq Files
    /\ events \subseteq Records /\ targets \subseteq Records
    /\ at \in {"idle", "day", "get", "land", "seed"}
    /\ crawl \in Crawls
    /\ day \in 1 .. LastDay + 1 /\ slot \in 1 .. Slots + 1
    /\ attempt \in 0 .. MaxRetries
    /\ batch \subseteq Records
    /\ fails \in 0 .. BurstAbort - 1 /\ missed \in BOOLEAN
    /\ code \in {"none", "ok", "aborted", "raised"}
    /\ crawls \in 0 .. MaxCrawls

Init ==
    /\ today \in Days
    /\ published \in SUBSET {u \in Files : u[1] <= today}
    /\ events = {} /\ targets = {}
    /\ at = "idle"
    /\ crawl = [first |-> 1, last |-> 1, skip |-> FALSE, known |-> {}]
    /\ day = 1 /\ slot = 1 /\ attempt = 0 /\ batch = {}
    /\ fails = 0 /\ missed = FALSE
    /\ code = "none" /\ crawls = 0

(***************************************************************************)
(* The source: files of a day appear that day or later, some never.        *)
(***************************************************************************)
NextDay ==
    /\ today < LastDay
    /\ today' = today + 1
    /\ UNCHANGED <<published, storeVars, at, crawl, dayVars, fails, missed, code, crawls>>

Publish(u) ==
    /\ u[1] <= today
    /\ published' = published \cup {u}
    /\ UNCHANGED <<today, storeVars, at, crawl, dayVars, fails, missed, code, crawls>>

(***************************************************************************)
(* main.                                                                   *)
(***************************************************************************)
Start(first, last, skip) ==
    /\ at = "idle" /\ crawls < MaxCrawls
    /\ crawls' = crawls + 1
    /\ crawl' = [first |-> first, last |-> last, skip |-> skip, known |-> published]
    /\ day' = first /\ slot' = 1 /\ attempt' = 0 /\ batch' = {}
    /\ fails' = 0 /\ missed' = FALSE
    /\ at' = "day" /\ code' = "none"
    /\ UNCHANGED <<worldVars, storeVars>>

End(result) ==
    /\ at' = "idle" /\ code' = result
    /\ day' = 1 /\ slot' = 1 /\ attempt' = 0 /\ batch' = {} /\ fails' = 0

EndOfWindow ==
    /\ at = "day" /\ day > crawl.last
    /\ End("ok")
    /\ UNCHANGED <<worldVars, storeVars, crawl, missed, crawls>>

(* _day_has_events: an event's knowledge date is the day of its file.      *)
HasEvents(d) == \E r \in events : FileOf[r][1] = d

Skipped == crawl.skip /\ HasEvents(day)

PastDay == day' = day + 1 /\ slot' = 1 /\ attempt' = 0 /\ batch' = {}

SkipDay ==
    /\ at = "day" /\ day <= crawl.last /\ Skipped
    /\ PastDay
    /\ UNCHANGED <<worldVars, storeVars, at, crawl, fails, missed, code, crawls>>

BeginDay ==
    /\ at = "day" /\ day <= crawl.last /\ ~Skipped
    /\ at' = "get"
    /\ UNCHANGED <<worldVars, storeVars, crawl, dayVars, fails, missed, code, crawls>>

(***************************************************************************)
(* GdeltAdapter.fetch.                                                     *)
(***************************************************************************)
Getting == at = "get" /\ slot <= Slots

In(u) == {r \in Records : FileOf[r] = u}

(* The file as the source has it; a missing one (404) is a gap.            *)
Fetched == IF <<day, slot>> \in published THEN In(<<day, slot>>) ELSE {}

Get ==
    /\ Getting
    /\ batch' = batch \cup Fetched
    /\ slot' = slot + 1 /\ attempt' = 0
    /\ UNCHANGED <<worldVars, storeVars, at, crawl, day, fails, missed, code, crawls>>

(* Mutant of MayRetry: one retry too many.                                 *)
MayRetryAgain == attempt <= MaxRetries

MayRetry == attempt < MaxRetries

(* _get_with_retry: no connection, or a 5xx.                               *)
Retry ==
    /\ Getting /\ MayRetry
    /\ attempt' = attempt + 1
    /\ UNCHANGED <<worldVars, storeVars, at, crawl, day, slot, batch, fails, missed, code, crawls>>

(* Mutant of Unreachable: a file that cannot be reached is taken for a gap.*)
UnreachableIsGap ==
    /\ Getting
    /\ slot' = slot + 1 /\ attempt' = 0
    /\ UNCHANGED <<worldVars, storeVars, at, crawl, day, batch, fails, missed, code, crawls>>

(* Mutant of Unreachable: a failed day is tried again until it answers.    *)
UnreachableAgain ==
    /\ Getting
    /\ missed' = TRUE
    /\ at' = "day" /\ slot' = 1 /\ attempt' = 0 /\ batch' = {}
    /\ UNCHANGED <<worldVars, storeVars, crawl, day, fails, code, crawls>>

(* SourceUnreachable: the retries are used up, or a 4xx other than 404.    *)
(* The day is given up; a burst of such days ends the crawl.               *)
Unreachable ==
    /\ Getting
    /\ missed' = TRUE
    /\ IF fails + 1 >= BurstAbort
         THEN End("aborted")
         ELSE at' = "day" /\ fails' = fails + 1 /\ PastDay /\ UNCHANGED code
    /\ UNCHANGED <<worldVars, storeVars, crawl, crawls>>

Collected ==
    /\ at = "get" /\ slot > Slots
    /\ at' = "land"
    /\ UNCHANGED <<worldVars, storeVars, crawl, dayVars, fails, missed, code, crawls>>

(***************************************************************************)
(* _land_gdelt_records: two writes, of the typed records only.             *)
(***************************************************************************)
(* gkg_records_to_l2_rows: records that are no typed event are counted.    *)
EventRows == batch \cap Typed

(* to_event_target_rows: every event type has a channel in the prior.      *)
TargetRows == EventRows

(* Mutant of LandEvents: the targets are landed first.                     *)
LandTargetsFirst ==
    /\ at = "land"
    /\ targets' = targets \cup TargetRows
    /\ at' = "seed"
    /\ UNCHANGED <<worldVars, events, crawl, dayVars, fails, missed, code, crawls>>

LandEvents ==
    /\ at = "land"
    /\ events' = events \cup EventRows
    /\ at' = "seed"
    /\ UNCHANGED <<worldVars, targets, crawl, dayVars, fails, missed, code, crawls>>

SeedTargets ==
    /\ at = "seed"
    /\ targets' = targets \cup TargetRows
    /\ at' = "day" /\ fails' = 0 /\ PastDay
    /\ UNCHANGED <<worldVars, events, crawl, missed, code, crawls>>

(* Contract drift in a file, a write that raises, a kill: nothing catches  *)
(* it and the crawl is over.                                               *)
Die ==
    /\ at # "idle"
    /\ End("raised")
    /\ UNCHANGED <<worldVars, storeVars, crawl, missed, crawls>>

Step ==
    \/ EndOfWindow \/ SkipDay \/ BeginDay
    \/ Get \/ Retry \/ Unreachable \/ Collected
    \/ LandEvents \/ SeedTargets

Next ==
    \/ NextDay
    \/ \E u \in Files : Publish(u)
    \/ \E first, last \in Days, skip \in BOOLEAN : Start(first, last, skip)
    \/ Step \/ Die

(* A crawl that runs goes on: every request has a timeout.                 *)
Spec     == Init /\ [][Next]_vars
FairSpec == Spec /\ WF_vars(Step)

(***************************************************************************)
(* Properties.                                                             *)
(***************************************************************************)

(* Wherever a crawl died, no channel incidence stands without the event it *)
(* belongs to: event_specs_from_l2 joins targets to events by id and       *)
(* drops the ones it finds no event for without a word.                    *)
TargetsHaveEvent == targets \subseteq events

Landable(d) == {r \in Typed : FileOf[r][1] = d /\ FileOf[r] \in crawl.known}

Window == crawl.first .. crawl.last

(* A crawl without --skip-existing that exits 0 and reports no failed day  *)
(* has landed, in both tables, every event of its window that was          *)
(* published when it began, whatever earlier crawls left half done.        *)
OkMeansLanded ==
    (code = "ok" /\ ~crawl.skip /\ ~missed) =>
        \A d \in Window : Landable(d) \subseteq events \cap targets

(* Retries, gaps and failed days cannot keep a crawl busy for ever.        *)
CrawlEnds == at # "idle" ~> at = "idle"
=============================================================================
