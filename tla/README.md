# A TLA+ verification of portfolio-copilot

portfolio-copilot watches a brokerage account, the market and the trade
disclosures of members of Congress, writes a daily digest with one
recommendation, keeps a ledger of what became of each recommendation, and places
orders for an operator who confirms them. It is an event-sourced Python
program: use cases write through a unit of work into PostgreSQL, a relay moves
the events of the transactional outbox into a durable log and on to handlers,
Kubernetes CronJobs drive everything that recurs.

This directory holds its specifications, the TLC configurations that check them
on small instances, and proofs checked by TLAPS. `PROJECT.json` lists the
components, the runs, the source lines each definition stands for, the hazards
of the code and the properties that cover them.

## 1. Inventory

Paths are relative to the repository's `src/`; `trading/` is `src/trading/`.

| Component | State it keeps | Operations | What makes it correct |
|---|---|---|---|
| **Unit of work** `trading/application/common/unit_of_work.py`, object store `adapters/object_store/` | collected events (memory), session rows, outbox rows, objects in Garage | `collect`, `commit`, rollback, payload offload over 64 KiB | rows and events commit together or not at all; no row refers to a missing object |
| **Outbox relay** `application/common/outbox_relay.py`, bus `event_bus.py`, worker loop `apps/worker/__main__.py` | `outbox` (`published_at`, `locked_at`), `event_log` | claim with `SKIP LOCKED`, append, deliver, mark, record an error | promoted exactly once into the log, every handler at least once, eventually |
| **Position refresh** `application/portfolio/refresh_positions.py` | `positions`, `broker_accounts` | read broker, load prior rows, delete and insert per symbol, emit drift | the rows are what the broker said, and every material change is announced |
| **Recommendation ledger** `application/signals/generate_digest.py` | `recommendations`, `digests` | expire, snapshot, detect acted-on, record, supersede | each recommendation resolves once and for the right reason |
| **Congressional ingest** `application/congressional/ingest_disclosures.py`, `adapters/quiver/client.py` | `trade_disclosures` | poll the latest page, back-fill a date range | every filing stored once and announced once |
| **Order placement** `application/execution/place_order.py`, `scripts/place_order.py` | orders at the broker | preview, confirm, submit, audit record | nothing ordered that was not confirmed |
| **Advisor council** `apps/worker/jobs/advisor_views_job.py`, `application/advisors/` | `advisor_views`, a cache by (advisor, model, snapshot hash) | snapshot fundamentals, ask a persona, abstain | the same snapshot is not paid for twice, and a run that ends covers everyone |
| **Company facts** `adapters/edgar/fundamentals.py`, `adapters/massive/fundamentals.py` | none | discrete quarters, trailing twelve months, growth | twelve months are twelve months |
| **Schwab client, OAuth** `apps/webhook/app.py`, `adapters/schwab/` | pending login states (10 minutes, one use), the Secret, mounted file, cached client | login, callback, exchange, patch, kubelet sync, rollout | one use per state; a new token reaches every pod |
| **Reports** `generate_briefing.py`, `generate_digest.py` and their jobs in `apps/worker/jobs/` | `daily_briefings`, `digests`, the push service | gather, ask a model, refuse a denial, commit, push; markdown to HTML and its cut | no disclosure in the window is missed or denied; a push has its row; no line is lost in the middle |
| **Dispatch and watchdogs** `apps/worker/run_job.py`, `infra/k8s/base/cronjobs.yaml`, token canary, pipeline health, VIX | none (each run starts over) | dispatch by job id; `backoffLimit`, deadlines; compare an age or a level | no missed threshold |
| **Live prices** `apps/api/routes/portfolio.py`, `application/market_data/refresh_quotes.py`, `adapters/massive/client.py`, `adapters/fake/broker.py` | none in use | previous close, live quote, re-pricing | a missing price never takes a position out of the total |
| **Congressional views** `apps/api/routes/congressional.py` | none | overlap with the portfolio, a disclosure's detail | nothing that touches the portfolio is left out |
| **Digest chat** `apps/api/routes/digest_chat.py` | the rate window | limit, assemble, stream | spend stays under the cap |
| **Read API, MCP, web, other notifiers, domain types, migrations** | - | queries, rendering, validation | - |

**How they interact.** Use cases share the database and nothing else. Business
rows and outbox rows share a transaction (unit of work to relay); the relay's
handlers share the transaction that promotes an event; the reports read what
refresh, ingest and the council have committed; the digest, the views and the
order script call the broker directly. All transactions are READ COMMITTED, so
statements of overlapping jobs interleave between the row and unique-index
waits. The webhook reaches the other pods only through the Secret they mount.

**What is hard.** Two relays during a rolling update; leases that run out under
a slow pass; handlers with effects that no rollback takes back; lost commit
acknowledgements; overlapping refreshes, ingests and council runs; retried and
repeated digests; pods killed between a paid call and its row, or between a row
and its push; callbacks loaded twice and sign-ins that cross; broker snapshots
that fail or straddle a trade; a market that moves between a preview, a
confirmation and an order; a wall clock set forward or back; figures filed twice under
different fiscal years. `PROJECT.json` lists these under "hazards", line by
line, with what covers each.

## 2. Modules

| Module | Models | State and actions |
|---|---|---|
| `DurableLog` | what the outbox promises: accepted whole, logged at most once, never dropped | `accepted`, `logged`; `Accept`, `Promote` |
| `OutboxRelay` | the relay, its tables, its bus | tables `outbox`, `published`, `age` (of `locked_at`), `eventLog`; per relay `pc`, `batch`, `row`, `handled`; `effects` counts what handlers did outside the database. One action per statement or handler call: `Claim`, `LogEvent`, `RejectEnvelope`, `Deliver`, `Mark`, `CommitRow`, `RecordError`; the faults `AttemptFails`, `CommitUnacknowledged`, `Crash`; `Enqueue` is the producer, `Tick` the database clock |
| `UnitOfWork` | the transactional boundary and the offload | per unit `progress`, `dirty`, `collected`, `staged`; `tables`, `enrolled`, `blobs`. `Execute`, `Collect`, `Exit`, `EnrollReference`, `EnrollInline`, `CommitUnit`, and the ways out `Raise`, `UploadRaises`, `CommitUnacknowledged` |
| `RefreshPositions` | overlapping `POST /portfolio/{id}/refresh` requests | `broker`, `local`, `account`, `outbox`; per request its time stamp, the broker's answer, the prior rows, its uncommitted writes. `Start`, `ReadBroker`, `Load`, `Write`, `Block`, `Unblock`, `Commit`, `Fail` |
| `IngestDisclosures` | overlapping polls and backfills | `inFeed`, `stored`, `events`; per job `page`, `inserted`, `collected`. `BeginPoll`, `BeginBackfill`, `FetchDay`, `Select`, `Insert`, `NextBatch`, `CommitJob`, `Fail`, `DeadlockVictim` |
| `SchwabLogin` | from the login link to a pod that can call the broker | the webhook's `pending` states and callbacks `inflight`, the `secret`, each pod's `mounted` file and `client`. `Login`, `Callback`, `Exchange`, `Patch`, `AnswerBadGateway`, `KubeletSync`, `BrokerCall`, `Rollout`, `ContainerRestarts`, `WebhookRestarts` |
| `RecommendationLedger` | the ledger part of a digest run | `recs`, the account (`qty`, `cash`), the run's `draft` and live readings. `Begin` (expire), `ReadPositions`, `ReadCashAndDetect`, `SnapshotUnavailable`, `Commit` (record and supersede), `Abort`; `Trade`, `NextDay` |
| `AdvisorCouncil` | the council job | `filed`, `views`, `calls` (paid); per run its loops and the `snap` in hand. `BuildSnapshot`, `SkipTicker`, `CacheHit`, `Ask`, `Answer`, `PersistView`, `UniqueViolation`, `RunDies`; `NewFiling`, `Midnight` |
| `CompanyFacts` | filings with comparatives, amendments, restatements and two tags, and the code that makes trailing-twelve-month flows of them | `facts` and the company's `style`; `File`, `AmendAnnual`, `Restate`. The code is the operators `Concept`, `OnePerEnd`, `Quarters`, `Ttm`, `PriorYear` |
| `PlaceOrder` | the order script | market `price`, `power`; `orders`; per operator the attempt, its `stage` (preview, submit), what it read and what it showed. `Start`, `Quote`, `CheckPower`, `AskBroker`, `Confirm`, `Decline`, `Place`, `CallFails`, `Record`; `MovePrice`, `MovePower` |
| `DailyReports` | briefing and digest jobs, from their data to the push | `disclosed`, `heldNow`, `reports`, `pushes`; per job what it gathered and wrote. `BeginReport`, `Gather`, `ReadHeld`, `Compose`, `CommitReport`, `PushReport`, `TemplateRaised`, `JobDies`; `Store`, `Refresh`, `NextDate` |
| `PushBody` | the line scanner and the cut of the push body | `markdown`, `html`, `message`; `Convert`, `Trim`. The code is the operators `MarkdownToPushoverHtml` and `TrimPushoverHtml`; `ShouldShow` says apart from it what is to be shown |
| `Watchdogs` | the CronJobs that watch the others | `due`, `retried`, `newest`, `tokenEnds`, `warned`, `heard`. `TokenCanary`, `PipelineHealth`, `VixAlert`, `VixCheckRaises`, `RunLost`; `NextSlot`, `FilingStored`, `SignIn` |
| `LivePrices` | `GET /portfolio/{id}?live=true` over Schwab or the paper broker | the market, the request's two readings, its `answer`. `ReadAccount`, `ReadPositions`, `AnswerLive`, `AnswerPlain`, `RequestFails`; `TradeShare` |
| `DisclosureViews` | overlap and detail of disclosures | `holdings`, `rows`, `listed`; the request's `book`, `table`, `shown`. `Request`, `ReadBook`, `BrokerRaises`, `ReadTable`, `PriceRaises`, `Query`; `Order`, `RefreshRows`, `List` |
| `ChatLimiter` | the chat's sliding window | `recentCalls`, `wall`; `Post`, `Assemble`, `EndStream`; `ClockTicks`, `ClockSetBack`, `ClockSetForward`; `leapt` and `allowed` are its history |
| `MC...` | the three suites (section 3) and the definitions of their constants | |
| `...Proofs` | theorems (section 4) | |

`OutboxRelay` instantiates `DurableLog` with `accepted <- outbox, logged <-
eventLog` and implements it. `UnitOfWork` is the producer side that
`OutboxRelay!Enqueue` abstracts to one step; every other module commits rows and
events in one action, which is what `UnitOfWork!AllOrNothing` justifies.
`DailyReports` and `RecommendationLedger` are two views of one digest run: what
it tells, and what it does to the recommendations.

**Abstractions.** Events, filings, symbols and payloads are identities. A
position is one level that stands for quantity and profit (both are compared
with a threshold). Days are numbers, digest and due dates are midnights. Row and
index locks of PostgreSQL appear as guards (`InsertWaits`, `MustWait`,
`ConflictWaits`) written from the statements and indexes the code
uses. A model's answer is any answer the parser can return. A snapshot's hash is
taken to be injective. A line of a push is its kind and width; a text is what
tells it from another (a template's, a model's, a denial). Quarters of company
facts are numbers, and their flows powers of three, so that no two sums agree.
Definitions marked *Faulty variant* are what a plausible mistake would have
written; they belong to no specification, and each is there to show that a
property notices the mistake.

## 3. Runs

`tlc -workers 2 -config X.cfg M`. The three passing runs are suites: their
components share no variable, so a behaviour of a suite is a *scene* of one
component (`scene`, chosen by the initial state) while the others stay in a fixed
initial state. A scene is therefore exactly the component's own specification, and
one run checks all properties of all its scenes.

| Run | Configuration | What it asks | Bounds |
|---|---|---|---|
| `services` | `Services.cfg` (`MCServices`), about three minutes | *relay*: at least once; first delivery alone; leases exclusive and handlers undisturbed while passes are prompt; implements `DurableLog`, progress included; no pass hangs on another's transaction. *login*: a state is accepted once and in time; a rolled pod has the token; a signed-out pod recovers. *ingest*: row and event together; announced once without overlap; a paced feed is stored completely | 2 relays, 3 rows of which the oldest is poison, 2 handlers, batch of 2, lease of 1 tick, 1 fault; 2 sign-ins, 2 pods, 2 restarts, states good for 1 tick of 2; 2 jobs, 3 filings, slice of 2, 1 backfill, 1 abort |
| `dashboard` | `Dashboard.cfg` (`MCDashboard`), about two and a half minutes | *refresh*: rows have their events; an undisturbed refresh leaves the broker's answer and announces drift. *unit*: all or nothing, nothing forgotten, references resolve, orphans only from failures. *prices*: the live total is accounted for. *reports*: disclosures in the window are reported and not denied, a push has its row. *push*: no line lost in the middle. *chat*: spend capped by the clock it is counted with. *views*: the overlap misses nothing. *watch*: a stall is noticed | 2 requests at a time, 3 in all, 2 symbols, levels to 3, 1 trade; 3 units, 3 events, 2 of them large, one unit without a store; 3 instruments, one unlisted, prices around the smallest; 2 jobs, 2 days, 2 disclosures dated those days, 1 death; 4 lines of 2 widths; 2 browsers, 3 ticks, the clock set forward by 1 and back by up to 3, 2 calls per 2 ticks; 2 accounts, 2 tickers, 2 disclosures, 1 order; 4 days of 4 slots from a Saturday on, 1 failure |
| `advice` | `Advice.cfg` (`MCAdvice`), about two and a half minutes | *ledger*: statuses resolve once; a fill takes a trade after its baseline; nothing overdue stays open; a pivot closes at least one recommendation of the day it names. *council*: nothing paid for twice, a run that ends covers everyone. *facts*: the newest figure is twelve months. *order*: one order per confirmation; placed as shown; overspends only in a race | 3 runs over 3 days, 2 symbols, 1 trade; 1 ticker, 2 personas, 2 runs, 1 filing, 2 days, 1 death; 10 quarters from any of four first ones, 1 correction; 2 operators, 3 attempts, 5 commands, 2 prices, 2 buying powers, 1 move (and the broker's own reservation at each placement) |
| `outbox_duplicates` | `OutboxDuplicates.cfg` | fails: handlers act on an event once | 1 row, 1 fault |
| `refresh_silent` | `RefreshSilent.cfg` | fails: no stored position changes materially without a drift event | as in `dashboard` |
| `ledger_same_day` | `LedgerSameDay.cfg` | fails: a pivot supersedes a prior recommendation | as in `advice` |
| `ingest_twice` | `IngestTwice.cfg` | fails: no filing is announced twice | as in `services` |
| `place_order_audit` | `PlaceOrderAudit.cfg` | fails: every submission has an audit record that tells it | as in `advice` |
| `facts_history` | `FactsHistory.cfg` | fails: every period of the history is twelve months | 1 company from its second year on, no correction |
| `reports_template` | `ReportsTemplate.cfg` | fails: the briefing's template always works | 1 job, 1 disclosure |
| `canary_silent` | `CanarySilent.cfg` | fails: the canary alerts the owner exactly when the token has ended | 4 days |
| `council_repays` | `CouncilRepays.cfg` | fails: only a new filing makes a persona be asked again | 1 ticker, 1 persona, 2 days |

**Why the bounds are enough.** Two relays, requests, jobs, callbacks or operators
are the fewest that race; the third row, refresh or run is what comes after a
race, and is what leaves a lease, a stale row or an open recommendation for
someone else. One fault (or abort, or death) can fall between any two steps; what
is left after it is an ordinary state, from which a second fault does nothing the
first could not. The ledger's lots and amounts lie on both sides of the 85 % line
and above the 115 % one; the order prices make a dollar amount buy three, two and
no shares. Ten quarters hold two fiscal year ends and a full pair of years to
compare, and the record may begin with any quarter of a year. The message limit of the push falls inside, at the end of and beyond the lines
that four of two widths make. The watchdogs' four days hold the weekend, on which
the VIX is not looked at, and more hours than the 48 after which a feed is
stalled. Bounded producers, operators and markets may stop, so all runs set
`CHECK_DEADLOCK FALSE`.

**Fairness.** Only `MCServices!FairServices` claims progress. The worker calls
`run_once` every five seconds, so an enabled step of a pass is taken, and the
database clock moves; producers and faults owe nothing. That is weak fairness of each
relay's pass alone: that no pass hangs where its statements wait for another's
transaction is a result (`PassesEnd`), not an assumption. The kubelet syncs a
mounted Secret, and the API keeps being asked for the portfolio
(`LoginFairness`); owners, rollouts and restarts owe nothing. The CronJobs poll
again and again and an open job goes on; an `INSERT` that waits for another
transaction's row is queued by PostgreSQL and is next when that transaction ends,
hence strong fairness on `Insert` alone. The other components claim no liveness:
an operator may never answer, a refresh happens when asked for, and a job whose
pod fails for good has no successor until the next day.

**Assumptions carried by a variable.** `prompt` (every pass ends within its
lease), `paced` (the feed never pushes out of sight what is not stored yet) and
`repeats` (a page may list a filing twice) are chosen in the initial state.
`disturbed`, `overlap`, `overtaken`, `traded`, `repriced` and `stale` record that a
race has happened. Properties that need the good case say so, and the others are
checked in both.

### What the runs found

- Handlers are not deduplicated: `outbox_relay.py:12` speaks of
  `consumer_offsets`, which nothing reads or writes. In production no handler is
  subscribed (`_run_outbox_relay` builds an empty bus), so nothing is repeated
  today.
- Two overlapping refreshes compare with the same prior rows: a material change
  can reach the table without a drift event that tells it. A refresh by masked
  account id finds no prior rows at all.
- A digest repeated on the same day (a retry after a failed push, for one) can
  supersede its own new recommendation, because the pivot's query runs after the
  new row is in the session.
- Ingest announces a filing once per job that fetched it, not once per row.
- The order script builds an audit record and stores it nowhere; the record
  carries the confirmed preview's quantity, not the one `submit` recomputed.
- A quarter repeated as a comparative carries the later filing's fiscal year, so
  the year-to-date total after it is taken for one quarter. With the Apple
  cassette of the tests, as of 2026-06-01, the revenue of the twelve months to
  2025-06-28 comes out as 628.3 billion instead of 408.6. The newest period is
  right, because over four quarters the wrong subtraction cancels out
  (`NewestIsTwelveMonths`); the history the personas are shown is not.
- A year's end with fewer than three rows before it gets no row, and `_ttm` adds
  up the last four rows without a look at whether they follow one another. For a
  company whose first 10-Q is that of a second quarter, the growth of a later period
  is measured against four quarters that reach five back. The proof of
  `NewestIsTwelveMonths` brought this up: it holds only with the premise
  `WholeYears`, that the record does not begin in the middle of a year a figure
  reaches into. Without it TLC finds, for a record from quarter 6 on, that the twelve
  months to 6 are the sum of the quarters 2, 3, 5 and 6, which the growth of quarter
  10 is measured against.
- The briefing's fallback template formats the upper end of an amount that may
  have none ("Over $50,000,000"): the job raises, and again on every retry while
  that filing is in its window.
- The token canary looks for the token file where no pod has it, gets no expiry
  and notifies a log: the owner is never told.
- The advisors' snapshot hash covers the date the snapshot is as of, so an
  unchanged filing is paid for every day. Within a day, and as far as the snapshot
  stays the same, the cache does what it promises (`NeverPaidTwice`). The hash covers
  market capitalisations and price-earnings ratios too, from closes that the market
  data may add or correct within a day; the model leaves them out, so an answer paid
  for again on their account is not in it.
- The chat's limit counts with `time.time()`: a clock set back makes it stricter, a
  clock set forward (or corrected after a setting back) drops stamps early and lets
  more than `_RATE_MAX` requests into a real minute. `SpendCapped` states what is
  left: the cap holds in a window of the time that passed and the forward settings
  added up.

## 4. Proofs

`tlapm M.tla` checks each module of proofs from nothing. All assumptions are the
named `ASSUME`s on constants in the component's module: that bounds are naturals,
windows and limits positive, instruments and price levels finitely many, flows
integers, a message long enough for its mark, and at most as many disclosures as a
report lists. Every safety property of a passing run, invariant or action property,
has a theorem. The theorems that no run's property goes with are the types of the
single components, `PublishedStays`, the safety part of `DurableLog` (which a run
checks together with its progress), and that a suite is its components.

| Module of proofs | Components |
|---|---|
| `DataLemmas` | what several proofs need of numbers, sets and sums |
| `OutboxProofs` | `OutboxRelay`, `DurableLog` |
| `ServicesProofs` | `SchwabLogin`, `IngestDisclosures`, and the suite `MCServices` |
| `RefreshProofs` | `RefreshPositions`, `UnitOfWork` |
| `ReportProofs` | `DailyReports`, `Watchdogs` |
| `DashboardProofs` | `ChatLimiter`, `DisclosureViews`, `LivePrices`, `PushBody`, and the suite `MCDashboard` |
| `FactsProofs` | `CompanyFacts` |
| `AdviceProofs` | `RecommendationLedger`, `AdvisorCouncil`, `PlaceOrder`, and the suite `MCAdvice` |

**Suites.** A step of a suite is a step of one component that leaves the others
alone, so a suite's specification implies each component's (`ServicesAreTheComponents`,
`DashboardIsTheComponents`, `AdviceIsTheComponents`) and inherits its theorems. The
suites' type invariants follow from those of the components
(`ServicesTypeCorrect`, `DashboardTypeCorrect`, `AdviceTypeCorrect`).

**Relay**, for any number of relays, rows, handlers and faults, any
batch limit and lease length. The inductive invariant `IInv` adds two facts to
the properties: `RowHeld` (a pass works on a row of its batch, which is a row of
the outbox) and `DeliveredSoFar` (in an open transaction the handlers counted by
`handled` have had their effect, and a row is marked only after the last). `AtLeastOnce`
is not inductive without them: the step that could break it, `CommitRow`, knows
nothing of the handlers but through `handled`. From it: `TypeCorrect`,
`NoHandlerSkipped`, `PublishedStays`. `FirstDeliverySerial` needs only that the unique index makes
the second INSERT wait. `LeaseExclusive` adds that under `prompt` a row in a
batch is younger than its lease. `HandledOnce` needs that too: without a fault a
batch holds no published row, and an effect belongs to a published row or to the
one transaction that has run the handler (`Fresh`). `RefinesDurableLog` is the step
simulation of `DurableLog!Safe`: `Enqueue` is `Accept`, the commit of a row not yet
logged is `Promote`, everything else stutters.

**Sign-in**, for any number of logins, pods and restarts: `UsedUp` (an accepted
state is pending no more), `TokensGranted`, and, unless exchanges have crossed,
`InOrder` (what is on its way is newer than the Secret, which has whatever was shown
and whatever pods were made with). `StatesAreSingleUse` needs the first,
`RolledPodsAreSignedIn` the last.

**Ingest**, for any number of jobs and filings: `CollectedIsThere` (a filing whose
event a job has collected is stored or inserted by that job) with `Counts` makes
`EventIffStored` inductive (`RowAndEventTogether`); a conflict that waits until the
other transaction ends is what keeps it when that transaction rolls back.
`FilingsAreAnnouncedOnce` adds, as long as no two jobs have overlapped and no page
repeats a filing: one job is open (`Alone`), the others have nothing (`Rested`), and
what it has collected was stored by nobody and is not left on its page (`FirstSeen`).
`IngestTypeCorrect` has `IngestShape` for it: a page lists filings of the feed, also
when one of them is repeated or some are gone from it.

**Refresh**, for any symbols, levels, requests and trades. `Timely` (no
stored row is newer than the clock), `Written` (what an open transaction has
written is what the broker answered it, each row with its event) and `Alone` (until
another request commits, the prior rows a request loaded are the stored ones, and
it has done to each symbol it is through with what it should) make
`RowsHaveEvents` inductive. `PositionsAreReconciled` and the action property
`RefreshMatchesBroker` follow; the latter needs `Alone` at the moment of the
commit, since the rows were loaded and written steps before. `DriftIsAnnounced`
adds `ToldSoFar` (a transaction has collected for the symbols it is through with
the events that its prior and fresh rows ask for, and no other) and `Stamped` (an
open request's time stamp is its own and is in no committed event, so that a
commit's events are told from earlier ones).

**Unit of work**, for any number of units, events and stores. The
invariant: no event belongs to two units (`Fresh`), a row in a session is about
an event of its unit and its object is stored already (`StagedSound`), objects
were put by a unit that offloads their event (`BlobsSound`), and whatever is in
the database came from a unit whose whole transaction is there
(`WholeTransactions`). `CommitsWhole` follows: an event in the outbox names its
unit through `Fresh`, and that unit's rows are there. So do `NoEventLost`,
`NoDanglingReference` and `CommitLeavesNoOrphan`.

**Ledger**, for any symbols, lots, amounts, windows and number of runs
and trades. `Readings` ties the run's two live readings to the number of trades
they include, `AllSound` that a recommendation's baseline is such a pair of
readings and its fill a later one, `DraftFollows` that the open transaction's
rows are the committed ones with only active ones resolved, so that a commit is a
step of `ResolvedIsFinal`. `HoldingIsNoFill`, `OverdueIsClosed`,
`ResolutionStays` follow. `PivotClosesOne` uses the lemma `CommitSupersedes`,
which follows one recommendation through the recording and the superseding.

**Council**, for any number of tickers, personas, filings, runs and
deaths. `Working` (a run that looks up or asks has a snapshot, and someone to ask),
`CoveredSoFar` (of what a run has built, everything but what is still to go is
stored) and `Accounted` (without an overlap an answer paid for is stored, in hand, or
died with its run) give `OneAnswerIsPaidFor` and `FinishedRunsCover`.

**Orders**, for any number of operators, attempts, commands and
prices. `OrdersTraced` (an order belongs to a confirmed attempt that is past
placing) and `Staged` (only a confirmed attempt submits) give `ConfirmedOnce`.
`QuotesKept` (a shown quantity is the command's at the price quoted, which is
still the price unless `repriced`) gives `ShownIsPlaced`; `ChecksKept` (what
`submit` read still holds unless `stale`) gives `RevalidationHolds`. The last two
are action properties, proved from the invariant through `NewOrders`: only
`Place` adds an order.

**Company facts**, for any flows, first quarter, length of the record, styles, tags,
amendments and restatements (`NewestFigures`). The invariant `FactsIInv` says of the
facts filed what the code relies on without saying so: a fact's value is the flow of
its period unless it was restated since (`FactSound`), the 10-Qs of a fiscal year are
under one tag and filed after those of the year before (`YearsInOrder`), of a
filing's two figures for a period the first listed, which the code takes, is the one
the company's style puts first (`FirstListed`), and a filing has its own quarter and that of the year before
(`AllFiled`). What the code makes of them takes three steps, each a lemma. `SameYear`:
the facts chosen for two quarters of one year are from filings of the same fiscal year
if both or neither has been filed, and both or neither repeated, although tags change
with the years. `CoveredRow`: of the twelve months in question, the rows of this year
and those of the year before up to the same quarter are their quarters' flows. The
rows of the quarters between them need not be: a comparative may have replaced what
should have been subtracted. `CoveredSum`: the year's end is the year less the three
rows before it, so what those have too much it has too little, and the four rows add
up. `PriorYearIs` counts the ends between a period
and the one its growth is measured against.

**Reports**, for any windows, limits and deaths: `Numbered` (a job's number is on
the dashboard once it has committed, and not on the phone while it lasts),
`ReadCompletely` (what a job has gathered leaves out a disclosure of its window
only for as many that are at least as new) and `StoredCompletely` (the same of a
committed row) give `PushesAreCommitted` and `DisclosuresAreReported`.

**Watchdogs**, for any schedule: `StallsAreNoticed` needs `RetryHasWarned`, that a
pod which failed and is tried again had logged the stall before it failed.

**Chat**, for any limit, window and settings of the clock. `Advance` between two
requests is the time that passed plus what the clock was set forward, which is as far
as the wall clock can have moved on; setting it back takes nothing from it. The
requests let through since the start are those dropped from the queue and those in
it: the dropped ones have advanced past the window (`OutOfWindow`), the stamps in the
queue make no request look older than its advance (`Queued`), so that whatever is
`RateMax` requests later is past the window (`Spaced`). `ChatSpendIsCapped` counts
from there, with the library's facts on the cardinality of intervals. The cap is
about real time only in a window in which the clock is not set forward: nothing in
the code keeps it in others.

**Views**, for any accounts, tickers, trades, refreshes and limit
(`HeldTickersAreShown`): what stayed in the table since the request came is among the
rows it has read (`SteadyIsRead`), whatever became of the broker's answers, and the
query's order is strict and total (`TickerOrder`), so a
disclosure is left out only if the limit is used up by those before it
(`FirstFewCount`).

**Live prices**, for any instruments, shares, prices and cash
(`LiveTotalsReconcile`): while no trade falls between the two readings they are of the
same shares (`SameShares`); each re-priced term lies between its lowest and highest
usable price, rounding included (`TermWithin`), and a sum of such terms lies between
the sums (`SumMonotone`).

**Push body**, for any lines, widths and limit (`PushLosesNoLine`). `ScanInv` says
of the line scanner, after each line, what it has put out and what it holds of an open
table: together the lines to be shown so far, each once and in order (`Lists`).
`JoinedTidy` follows them through the joining with breaks, and `TrimFits` through the
cut: it fits, and ends behind a line unless the first line alone is too long.

**Induction over data.** The provers cannot instantiate the library's induction
theorems. `DataLemmas` does without: `LeastNatural` (a set of naturals has a first
element, from the library's well-founded sets) turns an induction into a least
counterexample, and `GreatestOfFinite`, `CountExists`, `FoldExists` and `SumExists`
derive from it that a function defined by recursion over numbers or finite sets is
one. The recursive functions of the models (`Quarters`, `SoFar`, the scanner and
the joining of the push body) and the folds of the community modules are reasoned
about through those.

**Only model-checked.** Progress: the fairness part of `ImplementsLog`, `PassesEnd`,
`SignedOutPodRecovers`, `EveryFilingStored`. Liveness under fairness and ENABLED are
out of the prover's reach. No module uses a RECURSIVE operator.

## 5. What is not modelled

`PROJECT.json` says it per component. In short:

- the worker's own APScheduler, which production turns off (`WORKER_SCHEDULE`),
  and the drift alert handler's rendering, which no production code subscribes;
- `GET` routes and MCP tools that are one query and its rendering, the web front
  end, domain records, ntfy and other notifiers no job uses, the prompts;
- `scripts/schwab_login.py`, the webhook's exchange by hand on one machine;
- of an order, its type and limit price (no check reads it) and `cancel_order`;
- of the common code, `EventBus.publish` (never called), the dereferencing of
  `_blob_ref` (never done), the quote cache (only a seed script writes to it),
  option quotes;
- of company facts, balance-sheet concepts and ratios, which take one fact each;
- of the views, quantities: they add the table's rows to the broker's, and so
  count a stored position twice; the tickers, which are modelled, are not
  affected;
- overlapping digest runs: the CronJob forbids them, a run by hand beside it is
  possible and left out of `RecommendationLedger`;
- of the ledger, a BUY without a symbol, which the parser admits and nothing ever
  finds acted on, and a pivot that names a day to come;
- of a refresh, the account id in its events (a masked id is passed on);
- of live prices, short positions and fractions of a share;
- of sign-in, the worker's pod, which mounts the token and makes no broker of it;
- of the push body, a lone table row of several empty cells, whose blanks keep the
  breaks around it from being collapsed;
- how a denial is told: the code looks for "no" and "disclos" in a text's first 200
  characters, so that some denials pass and some other texts are refused, while
  `BriefingText` takes denials to be told exactly;
- in the relay's run, a whole batch of poison rows: a full batch that always fails
  keeps later rows waiting, and `ImplementsLog` is checked with one poison row and
  room for two, where it does not happen;
- the history of the schema. Its present indexes are in the modules that depend
  on them.

## 6. Plan

Done, the most central first: the outbox with `DurableLog` and proofs; the unit
of work; refresh; ledger; ingest; orders; then sign-in, council, company facts,
reports and their push, watchdogs, live prices, views and chat, their composition
in three suites, and the proofs of section 4, which leave no invariant or action
property of a passing run unproved.

What is left, by worth:

1. `RecommendationLedger` with two digest runs at once, and windows of one day
   against the order of expiry and detection; then its invariant for that.
2. Limit orders in `PlaceOrder`.
3. The quantities of the congressional views beside the tickers.
