------------------------- MODULE IngestDisclosures -------------------------
(***************************************************************************)
(* Polling the congressional feed into trade_disclosures:                  *)
(* application/congressional/ingest_disclosures.py (execute and backfill), *)
(* the feed as adapters/quiver/client.py pages it, run by                  *)
(* apps/worker/jobs/ingest_congressional.py in one UnitOfWork.             *)
(*                                                                         *)
(* Two CronJobs, their retries and a manual backfill may overlap.  Each is *)
(* a READ COMMITTED transaction: it fetches a page, selects the filing ids *)
(* already stored, inserts the rest one by one (ON CONFLICT DO NOTHING),   *)
(* and commits rows and collected events together.                         *)
(***************************************************************************)
EXTENDS Naturals, Sequences, SequencesExt

CONSTANTS
    Filings,        \* how many filings the feed ever has; they are numbered by age
    Limit,          \* POLL_LIMIT: how many of the latest a poll looks at
    Jobs,           \* overlapping transactions
    MaxBackfills,   \* bound on backfills, which are started by hand
    MaxAborts       \* bound on transactions that roll back

ASSUME IngestAssumption ==
    /\ Filings \in Nat \ {0}
    /\ Limit \in Nat \ {0}
    /\ MaxBackfills \in Nat
    /\ MaxAborts \in Nat

VARIABLES
    repeats,    \* whether, in this behaviour, a page may list a filing twice
    paced,      \* whether, in this behaviour, the feed never outruns the polls and
                \* lists every filing once
    inFeed,     \* filings 1 .. inFeed are in the feed
    stored,     \* committed trade_disclosures rows, by filing_id
    events,     \* events[f]: TradeDisclosureReceived rows committed for f (2: or more)
    jobAt, kind, page, inserted, collected, nextDay,
    backfills,  \* backfills started so far
    aborts,
    overlapped  \* history: two transactions have been open together

\* Per job: where it is, "poll" or "backfill", the entries of the page still to
\* insert by their places, the rows and the events of its open transaction, and the
\* next day a backfill asks for.
jobVars == <<jobAt, kind, page, inserted, collected, nextDay>>
histVars == <<backfills, aborts, overlapped>>
ingestVars == <<repeats, paced, inFeed, stored, events, jobVars, histVars>>

-----------------------------------------------------------------------------

Filing == 1 .. Filings
Nobody == [f \in Filing |-> 0]
Plus(m, n) == IF m + n > 2 THEN 2 ELSE m + n

IngestTypeOK ==
    /\ repeats \in BOOLEAN /\ paced \in BOOLEAN
    /\ inFeed \in 0 .. Filings
    /\ stored \subseteq 1 .. inFeed
    /\ events \in [Filing -> 0 .. 2]
    /\ jobAt \in [Jobs -> {"idle", "fetching", "selecting", "inserting"}]
    /\ kind \in [Jobs -> {"poll", "backfill"}]
    /\ \A j \in Jobs : Range(page[j]) \subseteq 1 .. inFeed
    /\ inserted \in [Jobs -> SUBSET Filing]
    /\ collected \in [Jobs -> [Filing -> 0 .. 2]]
    /\ nextDay \in [Jobs -> 0 .. Filings + 1]
    /\ backfills \in 0 .. MaxBackfills
    /\ aborts \in 0 .. MaxAborts
    /\ overlapped \in BOOLEAN

IngestInit ==
    /\ repeats \in BOOLEAN
    /\ paced \in IF repeats THEN {FALSE} ELSE BOOLEAN
    /\ inFeed = 0
    /\ stored = {}
    /\ events = Nobody
    /\ jobAt = [j \in Jobs |-> "idle"]
    /\ kind = [j \in Jobs |-> "poll"]
    /\ page = [j \in Jobs |-> <<>>]
    /\ inserted = [j \in Jobs |-> {}]
    /\ collected = [j \in Jobs |-> Nobody]
    /\ nextDay = [j \in Jobs |-> 0]
    /\ backfills = 0
    /\ aborts = 0
    /\ overlapped = FALSE

-----------------------------------------------------------------------------
(***************************************************************************)
(* The feed.                                                               *)
(***************************************************************************)

\* A filing is published.  A paced feed never pushes one that is not stored yet
\* out of the polls' sight.
Publish ==
    /\ inFeed < Filings
    /\ paced => (inFeed >= Limit => inFeed - Limit + 1 \in stored)
    /\ inFeed' = inFeed + 1
    /\ UNCHANGED <<repeats, paced, stored, events, jobVars, histVars>>

\* How the feed may list the filings from one to another: newest first, and
\* perhaps with one of them twice.
Listings(first, last) ==
    LET once == [i \in 1 .. last + 1 - first |-> last + 1 - i]
    IN  {once} \cup (IF repeats THEN {InsertAt(once, k, once[k]) : k \in DOMAIN once} ELSE {})

\* Faulty variant: the slice is one short.
LatestShort ==
    {IF Len(p) < Limit THEN p ELSE SubSeq(p, 1, Limit - 1) : p \in Listings(1, inFeed)}

\* disclosures[:limit]: repeated entries count.
Latest ==
    {IF Len(p) > Limit THEN SubSeq(p, 1, Limit) ELSE p : p \in Listings(1, inFeed)}

-----------------------------------------------------------------------------
(***************************************************************************)
(* One transaction.                                                        *)
(***************************************************************************)

Open(j) == jobAt[j] # "idle"

Begin(j) ==
    /\ jobAt[j] = "idle"
    /\ overlapped' = (overlapped \/ \E i \in Jobs \ {j} : Open(i))

\* execute starts with get_recent_disclosures: one request, sliced to the limit.
BeginPoll(j) ==
    /\ Begin(j)
    /\ \E p \in Latest : page' = [page EXCEPT ![j] = p]
    /\ jobAt' = [jobAt EXCEPT ![j] = "selecting"]
    /\ UNCHANGED <<repeats, paced, inFeed, stored, events, kind, inserted, collected,
                   nextDay, backfills, aborts>>

BeginBackfill(j) ==
    /\ Begin(j)
    /\ backfills < MaxBackfills
    /\ backfills' = backfills + 1
    /\ kind' = [kind EXCEPT ![j] = "backfill"]
    /\ nextDay' = [nextDay EXCEPT ![j] = 1]
    /\ jobAt' = [jobAt EXCEPT ![j] = "fetching"]
    /\ UNCHANGED <<repeats, paced, inFeed, stored, events, page, inserted, collected, aborts>>

DayHasFilings(d) == d \in 1 .. inFeed

\* backfill: day after day, one filing a day in the model.  An endpoint that
\* repeats filings may list the day before's again.
FetchDay(j) ==
    /\ jobAt[j] = "fetching"
    /\ DayHasFilings(nextDay[j])
    /\ \E first \in {nextDay[j]} \cup (IF repeats /\ nextDay[j] > 1 THEN {nextDay[j] - 1} ELSE {}) :
        \E p \in Listings(first, nextDay[j]) : page' = [page EXCEPT ![j] = p]
    /\ nextDay' = [nextDay EXCEPT ![j] = @ + 1]
    /\ jobAt' = [jobAt EXCEPT ![j] = "selecting"]
    /\ UNCHANGED <<repeats, paced, inFeed, stored, events, kind, inserted, collected, histVars>>

\* Faulty variant: nothing is looked up before the inserts.
FindExistingNothing(j) == {}

\* The ids of the page that are stored, as the transaction sees them.
FindExisting(j) == (stored \cup inserted[j]) \cap Range(page[j])

\* What the loop will skip is settled here, before any of its INSERTs.
Select(j) ==
    /\ jobAt[j] = "selecting"
    /\ page' = [page EXCEPT ![j] =
                   Restrict(@, {i \in DOMAIN @ : @[i] \notin FindExisting(j)})]
    /\ jobAt' = [jobAt EXCEPT ![j] = "inserting"]
    /\ UNCHANGED <<repeats, paced, inFeed, stored, events, kind, inserted, collected,
                   nextDay, histVars>>

\* The loop goes through the page in its order.
Place(j) == CHOOSE i \in DOMAIN page[j] : \A k \in DOMAIN page[j] : i <= k
NextFiling(j) == page[j][Place(j)]
RestOfPage(j) == Restrict(page[j], DOMAIN page[j] \ {Place(j)})

\* Faulty variant: a row another transaction has in flight counts as stored.
ConflictNeverWaits(j, f) == FALSE

\* The unique index on filing_id: an INSERT of an id that another open
\* transaction has inserted waits for that transaction.
ConflictWaits(j, f) == \E i \in Jobs \ {j} : f \in inserted[i]

\* What ON CONFLICT DO NOTHING adds to the table: nothing if the id is there.
RowInserted(j, f) == {f} \ (stored \cup UNION {inserted[i] : i \in Jobs \ {j}})

\* Insert, and collect the event whether or not the row was new.
Insert(j) ==
    /\ jobAt[j] = "inserting"
    /\ DOMAIN page[j] # {}
    /\ LET f == NextFiling(j)
       IN  /\ ~ConflictWaits(j, f)
           /\ inserted' = [inserted EXCEPT ![j] = @ \cup RowInserted(j, f)]
           /\ collected' = [collected EXCEPT ![j][f] = Plus(@, 1)]
    /\ page' = [page EXCEPT ![j] = RestOfPage(j)]
    /\ UNCHANGED <<repeats, paced, inFeed, stored, events, jobAt, kind, nextDay, histVars>>

\* A backfill goes on with its next day.
NextBatch(j) ==
    /\ jobAt[j] = "inserting" /\ DOMAIN page[j] = {} /\ kind[j] = "backfill"
    /\ jobAt' = [jobAt EXCEPT ![j] = "fetching"]
    /\ UNCHANGED <<repeats, paced, inFeed, stored, events, kind, page, inserted,
                   collected, nextDay, histVars>>

\* Nothing is left to fetch: a poll has one page, a backfill its date range.
Exhausted(j) ==
    \/ jobAt[j] = "inserting" /\ DOMAIN page[j] = {} /\ kind[j] = "poll"
    \/ jobAt[j] = "fetching" /\ nextDay[j] > inFeed

EndJob(j) ==
    /\ jobAt' = [jobAt EXCEPT ![j] = "idle"]
    /\ kind' = [kind EXCEPT ![j] = "poll"]
    /\ page' = [page EXCEPT ![j] = <<>>]
    /\ inserted' = [inserted EXCEPT ![j] = {}]
    /\ collected' = [collected EXCEPT ![j] = Nobody]
    /\ nextDay' = [nextDay EXCEPT ![j] = 0]

\* UnitOfWork.commit: rows and outbox rows become visible together.
CommitEffects(j) ==
    /\ stored' = stored \cup inserted[j]
    /\ events' = [f \in Filing |-> Plus(events[f], collected[j][f])]

CommitJob(j) ==
    /\ Exhausted(j)
    /\ CommitEffects(j)
    /\ EndJob(j)
    /\ UNCHANGED <<repeats, paced, inFeed, histVars>>

\* The feed, a statement or the process fails.  The transaction rolls back,
\* unless it was the acknowledgement of the commit that was lost: the job fails
\* all the same and is run again.
Fail(j) ==
    /\ aborts < MaxAborts
    /\ aborts' = aborts + 1
    /\ Open(j)
    /\ \/ UNCHANGED <<stored, events>>
       \/ Exhausted(j) /\ CommitEffects(j)
    /\ EndJob(j)
    /\ UNCHANGED <<repeats, paced, inFeed, backfills, overlapped>>

\* A poll inserts newest first, a backfill oldest first, so they can wait for
\* each other.  PostgreSQL notices, makes one statement raise, and hands the row
\* to the other at once.
WaitsFor(j, i) ==
    jobAt[j] = "inserting" /\ DOMAIN page[j] # {} /\ NextFiling(j) \in inserted[i]

DeadlockVictim(j) ==
    \E i \in Jobs \ {j} :
        /\ WaitsFor(j, i) /\ WaitsFor(i, j)
        /\ LET f == NextFiling(i)
           IN  /\ inserted' = [inserted EXCEPT ![j] = {}, ![i] = @ \cup {f}]
               /\ collected' = [collected EXCEPT ![j] = Nobody, ![i][f] = Plus(@, 1)]
        /\ page' = [page EXCEPT ![j] = <<>>, ![i] = RestOfPage(i)]
        /\ jobAt' = [jobAt EXCEPT ![j] = "idle"]
        /\ kind' = [kind EXCEPT ![j] = "poll"]
        /\ nextDay' = [nextDay EXCEPT ![j] = 0]
        /\ UNCHANGED <<repeats, paced, inFeed, stored, events, histVars>>

-----------------------------------------------------------------------------

\* What a job that has begun goes on doing.
Run(j) ==
    \/ FetchDay(j)
    \/ Select(j)
    \/ Insert(j)
    \/ NextBatch(j)
    \/ CommitJob(j)
    \/ DeadlockVictim(j)

IngestNext ==
    \/ Publish
    \/ \E j \in Jobs :
        \/ BeginPoll(j)
        \/ BeginBackfill(j)
        \/ Run(j)
        \/ Fail(j)

IngestSpec == IngestInit /\ [][IngestNext]_ingestVars

-----------------------------------------------------------------------------
(***************************************************************************)
(* Properties.                                                             *)
(***************************************************************************)

\* The row and the event of a filing come together, whichever of two racing
\* transactions inserted the row and whichever rolled back.
EventIffStored == \A f \in Filing : events[f] > 0 <=> f \in stored

\* When no two jobs overlap and no page repeats a filing, a filing is announced
\* once, however often the polls see it and whatever has failed before.
AnnouncedOnce == (~overlapped /\ ~repeats) => \A f \in Filing : events[f] < 2

\* A feed that does not outrun the polls loses nothing: the table catches up with it
\* again and again, whatever fails and whoever waits for whom.
EveryFilingStored == []<>(paced => stored = 1 .. inFeed)

\* "Emits TradeDisclosureReceived events for each new disclosure" and "handles
\* ... intra-batch dups": no filing is announced twice.
NeverAnnouncedTwice == \A f \in Filing : events[f] < 2

=============================================================================
