------------------------ MODULE RecommendationLedger ------------------------
(***************************************************************************)
(* The recommendations table of the daily digest:                          *)
(* application/signals/generate_digest.py, run once a day by               *)
(* apps/worker/jobs/generate_digest_job.py.                                *)
(*                                                                         *)
(* One run is one UnitOfWork: it expires what is past due, reads the live  *)
(* self-directed account, marks what the owner acted on, asks the model,   *)
(* records the new recommendation with the account as its baseline, and    *)
(* resolves the one the model pivots away from.  The owner trades while    *)
(* it runs.  Runs do not overlap (concurrencyPolicy: Forbid) but a day may *)
(* have several: a failed pod is retried, a manual run repeats the day.    *)
(*                                                                         *)
(* Time counts days.  A run of day d happens after midnight of d, and      *)
(* digest and due dates are midnights, so "due_date < now" is due <= d.    *)
(***************************************************************************)
EXTENDS Integers, Sequences

CONSTANTS
    Symbols,        \* tickers the model may recommend
    Windows,        \* days each window allows (1, 7, 21, 30 in the code)
    Amounts,        \* dollar amounts the model may name, -1 for a missing one
    Lots,           \* sizes of the owner's trades, in shares that trade at a dollar
    Low, High,      \* the detection band, in percent of the amount
    Quantity,       \* the owner's holding of every symbol at the start
    AverageCost,    \* what the broker reports as a symbol's cost per share
    MaxDay,         \* bound on the days that pass
    MaxTrades,      \* bound on the owner's trades
    MaxRuns         \* bound on the runs that start

ASSUME LedgerAssumption ==
    /\ Windows \subseteq Nat \ {0}
    /\ Amounts \subseteq (Nat \ {0}) \cup {-1}
    /\ Lots \subseteq Nat \ {0}
    /\ Low \in Nat /\ High \in Nat /\ Low <= High
    /\ Quantity \in [Symbols -> Nat]
    /\ AverageCost \in [Symbols -> Nat]
    /\ MaxDay \in Nat /\ MaxTrades \in Nat /\ MaxRuns \in Nat

VARIABLES
    day,        \* today
    qty,        \* qty[s]: shares of s in the self-directed account
    cash,       \* its cash, relative to the start
    trades,     \* trades so far
    recs,       \* the committed recommendations, in the order they were issued
    lastRun,    \* day of the latest committed run
    runs,       \* runs started so far
    phase,      \* where the current run is
    today,      \* the day the current run's clock read
    draft,      \* the recommendations as its open transaction sees them
    livePos,    \* its reading of the positions, and the trades it includes
    liveCash,   \* its reading of the cash, and the trades it includes
    pivot       \* history: what the latest commit was asked to supersede

accountVars == <<qty, cash, trades>>
runVars == <<phase, today, draft, livePos, liveCash>>
vars == <<day, accountVars, recs, lastRun, runs, runVars, pivot>>

-----------------------------------------------------------------------------

None == -1
NoSymbol == "none"
Days == 0 .. MaxDay
NoReading == [value |-> None, at |-> None]
NoPivot == [asked |-> None, open |-> {}]

\* The readings of a run, and the trades they include.
Holdings == [Symbols -> Nat]
Statuses == {"active", "acted_on", "expired", "superseded"}

Recommendation ==
    [digestDate : Days, verb : {"BUY", "HOLD"}, symbol : Symbols \cup {NoSymbol},
     amount : Amounts \cup {None}, due : Nat, status : Statuses,
     supersededBy : Nat, baselineQty : Nat \cup {None}, baselineCash : [value : Int, at : Int],
     baselineAt : Int, actedAt : Int]

Phases == {"idle", "begun", "positions", "asking"}

TypeOK ==
    /\ day \in Days
    /\ qty \in Holdings /\ cash \in Int /\ trades \in 0 .. MaxTrades
    /\ recs \in Seq(Recommendation)
    /\ lastRun \in Days \cup {None}
    /\ runs \in 0 .. MaxRuns
    /\ phase \in Phases /\ today \in Days
    /\ draft \in Seq(Recommendation)
    /\ livePos.at \in 0 .. MaxTrades \cup {None} /\ (livePos.at # None => livePos.value \in Holdings)
    /\ liveCash.at \in 0 .. MaxTrades \cup {None} /\ liveCash.value \in Int
    /\ \A i \in DOMAIN recs :
        /\ recs[i].supersededBy <= Len(recs)
        /\ recs[i].due > recs[i].digestDate

Init ==
    /\ day = 0
    /\ qty = Quantity /\ cash = 0 /\ trades = 0
    /\ recs = <<>>
    /\ lastRun = None
    /\ runs = 0
    /\ phase = "idle" /\ today = 0 /\ draft = <<>>
    /\ livePos = NoReading /\ liveCash = NoReading
    /\ pivot = NoPivot

-----------------------------------------------------------------------------
(***************************************************************************)
(* The owner and the calendar.                                             *)
(***************************************************************************)

\* The owner buys or sells; nothing tells the program why.
Trade(s, lot) ==
    /\ trades < MaxTrades
    /\ trades' = trades + 1
    /\ \/ /\ qty' = [qty EXCEPT ![s] = @ + lot]
          /\ cash' = cash - lot
       \/ /\ qty[s] >= lot
          /\ qty' = [qty EXCEPT ![s] = @ - lot]
          /\ cash' = cash + lot
    /\ UNCHANGED <<day, recs, lastRun, runs, runVars, pivot>>

NextDay ==
    /\ day < MaxDay
    /\ day' = day + 1
    /\ UNCHANGED <<accountVars, recs, lastRun, runs, runVars, pivot>>

-----------------------------------------------------------------------------
(***************************************************************************)
(* Before the model is asked: expire, read the account, detect.            *)
(***************************************************************************)

\* Faulty variant: compares due dates with the digest's midnight, not with now.
ExpireOverdueAtMidnight(rs, d) ==
    [i \in DOMAIN rs |->
        IF rs[i].status = "active" /\ rs[i].due < d
        THEN [rs[i] EXCEPT !.status = "expired"] ELSE rs[i]]

ExpireOverdue(rs, d) ==
    [i \in DOMAIN rs |->
        IF rs[i].status = "active" /\ rs[i].due <= d
        THEN [rs[i] EXCEPT !.status = "expired"] ELSE rs[i]]

\* amount_usd in shares is amount / cost; a cost of zero reads as one dollar.
CostPerShare(s) == IF AverageCost[s] = 0 THEN 1 ELSE AverageCost[s]

\* Faulty variant: a missing baseline counts as a baseline of zero.
QuantityGrewFromZero(rec, pos) ==
    /\ rec.symbol # NoSymbol
    /\ rec.amount # None
    /\ LET growth == pos[rec.symbol] - (IF rec.baselineQty = None THEN 0 ELSE rec.baselineQty)
       IN  growth > 0 /\ 100 * growth * CostPerShare(rec.symbol) >= Low * rec.amount

\* Rule 1: the holding grew by the amount's worth, less the tolerance.  Without
\* a baseline there is no growth to speak of; a symbol no longer held is not in
\* the broker's answer.
QuantityGrew(rec, pos) ==
    /\ rec.symbol # NoSymbol
    /\ rec.baselineQty # None
    /\ pos[rec.symbol] > 0
    /\ rec.amount # None
    /\ pos[rec.symbol] > rec.baselineQty
    /\ 100 * (pos[rec.symbol] - rec.baselineQty) * CostPerShare(rec.symbol) >= Low * rec.amount

\* Rule 2: the cash fell by the amount, within the tolerance either way.
CashFell(rec, now) ==
    /\ rec.amount # None
    /\ rec.baselineCash # NoReading
    /\ LET drop == rec.baselineCash.value - now
       IN  drop > 0 /\ 100 * drop >= Low * rec.amount /\ 100 * drop <= High * rec.amount

CheckOne(rec, pos, now) == QuantityGrew(rec, pos) \/ CashFell(rec, now)

\* Every open BUY the account's movement accounts for, however many they are.
DetectActedOn(rs, pos, now, at) ==
    [i \in DOMAIN rs |->
        IF rs[i].status = "active" /\ rs[i].verb = "BUY" /\ CheckOne(rs[i], pos, now)
        THEN [rs[i] EXCEPT !.status = "acted_on", !.actedAt = at] ELSE rs[i]]

\* The run's clock is read and past-due recommendations are expired.
Begin ==
    /\ phase = "idle"
    /\ runs < MaxRuns
    /\ runs' = runs + 1
    /\ today' = day
    /\ draft' = ExpireOverdue(recs, day)
    /\ phase' = "begun"
    /\ pivot' = NoPivot
    /\ UNCHANGED <<day, accountVars, recs, lastRun, livePos, liveCash>>

\* broker.get_positions.
ReadPositions ==
    /\ phase = "begun"
    /\ livePos' = [value |-> qty, at |-> trades]
    /\ phase' = "positions"
    /\ UNCHANGED <<day, accountVars, recs, lastRun, runs, today, draft, liveCash, pivot>>

\* broker.get_account, a second request; then the open BUYs are checked.
ReadCashAndDetect ==
    /\ phase = "positions"
    /\ liveCash' = [value |-> cash, at |-> trades]
    /\ draft' = DetectActedOn(draft, livePos.value, cash, trades)
    /\ phase' = "asking"
    /\ UNCHANGED <<day, accountVars, recs, lastRun, runs, today, livePos, pivot>>

\* No broker, no account id, or either request raised: no detection today and
\* no baseline for the recommendation to come.
SnapshotUnavailable ==
    /\ phase \in {"begun", "positions"}
    /\ livePos' = NoReading
    /\ phase' = "asking"
    /\ UNCHANGED <<day, accountVars, recs, lastRun, runs, today, draft, liveCash, pivot>>

-----------------------------------------------------------------------------
(***************************************************************************)
(* After the model answered: record, supersede, commit.                    *)
(***************************************************************************)

\* What the parser makes of the answer.  A missing or malformed block, an
\* unknown verb and a template digest are all an immediate HOLD.  Left out are a
\* BUY without a symbol, which is never found acted on, and a pivot that names a
\* day to come, which has no recommendation to close.
Answers ==
    LET hold == [verb : {"HOLD"}, symbol : {NoSymbol}, amount : {None},
                 window : Windows, supersedes : Days \cup {None}]
        buy  == [verb : {"BUY"}, symbol : Symbols, amount : Amounts,
                 window : Windows, supersedes : Days \cup {None}]
    IN  hold \cup buy

\* The shares the account held when it was read, if it was.
BaselineQty(a) ==
    IF a.symbol = NoSymbol \/ livePos.at = None THEN None ELSE livePos.value[a.symbol]

\* Faulty variant: the window is one day short.
DueDateShort(a) == today + a.window - 1

DueDate(a) == today + a.window

NewRecommendation(a) ==
    [digestDate |-> today, verb |-> a.verb, symbol |-> a.symbol, amount |-> a.amount,
     due |-> DueDate(a), status |-> "active", supersededBy |-> 0,
     baselineQty |-> BaselineQty(a), baselineCash |-> liveCash,
     baselineAt |-> livePos.at, actedAt |-> None]

\* Faulty variant: the day's upper bound is inclusive, and digest dates are midnights.
CandidatesInclusive(rs, d) ==
    {i \in DOMAIN rs : rs[i].status = "active" /\ rs[i].digestDate \in {d, d + 1}}

\* Faulty variant: resolved recommendations are candidates too.
CandidatesAnyStatus(rs, d) == {i \in DOMAIN rs : rs[i].digestDate = d}

\* Open recommendations issued on day d, the one just added included.
Candidates(rs, d) == {i \in DOMAIN rs : rs[i].status = "active" /\ rs[i].digestDate = d}

\* The one to supersede: a symbol match if there is one, else any; the query
\* has no ORDER BY.
Matches(rs, a) ==
    LET open    == Candidates(rs, a.supersedes)
        matches == {i \in open : a.symbol # NoSymbol /\ rs[i].symbol = a.symbol}
    IN  IF matches # {} THEN matches ELSE open

\* The transaction's final rows: the new one appended and flushed, then at most
\* one marked superseded by it.
Recorded(rs, a) ==
    LET all == Append(rs, NewRecommendation(a))
    IN  IF a.supersedes = None \/ Matches(all, a) = {} THEN {all}
        ELSE {[all EXCEPT ![i].status = "superseded", ![i].supersededBy = Len(all)] :
                 i \in Matches(all, a)}

EndRun ==
    /\ phase' = "idle"
    /\ today' = 0
    /\ draft' = <<>>
    /\ livePos' = NoReading
    /\ liveCash' = NoReading

\* One commit: the digest, the recommendation, every status change, the event.
\* (A lost acknowledgement only fails the job; the retry is another run.)
Commit(a) ==
    /\ phase = "asking"
    /\ a.supersedes <= today
    /\ recs' \in Recorded(draft, a)
    /\ lastRun' = today
    /\ pivot' = [asked |-> a.supersedes,
                 open |-> {i \in DOMAIN draft : draft[i].status = "active"
                                                /\ draft[i].digestDate = a.supersedes}]
    /\ EndRun
    /\ UNCHANGED <<day, accountVars, runs>>

\* The job dies or a statement raises: the transaction is gone.
Abort ==
    /\ phase # "idle"
    /\ EndRun
    /\ UNCHANGED <<day, accountVars, recs, lastRun, runs, pivot>>

Next ==
    \/ \E s \in Symbols, lot \in Lots : Trade(s, lot)
    \/ NextDay
    \/ Begin
    \/ ReadPositions
    \/ ReadCashAndDetect
    \/ SnapshotUnavailable
    \/ \E a \in Answers : Commit(a)
    \/ Abort

Spec == Init /\ [][Next]_vars

-----------------------------------------------------------------------------
(***************************************************************************)
(* Properties.                                                             *)
(***************************************************************************)

\* The lifecycle is active, then one resolution: no later run, detection or
\* pivot touches a resolved recommendation, and none is ever deleted.
ResolvedIsFinal ==
    [][\A i \in DOMAIN recs :
           /\ i \in DOMAIN recs'
           /\ recs[i].status # "active" => recs'[i] = recs[i]]_vars

\* "A pre-existing holding must NOT read as a fill": acted_on takes a baseline
\* and a trade after it was read, whatever snapshots failed in between and
\* however the two requests of one snapshot straddle a trade.
ActedOnAfterBaseline ==
    \A i \in DOMAIN recs :
        recs[i].status = "acted_on" =>
            recs[i].baselineAt # None /\ recs[i].actedAt > recs[i].baselineAt

\* After a run has committed, nothing that was due by that day is still open.
NothingOverdueStaysOpen ==
    \A i \in DOMAIN recs : recs[i].status = "active" => recs[i].due > lastRun

\* A pivot away from an earlier day closes at least one recommendation of that day
\* if any was still open after expiry and detection, and none of another day.
PivotClosesThatDay ==
    [][recs' # recs =>
        LET superseded == {i \in DOMAIN recs' : recs'[i].supersededBy = Len(recs')}
        IN  pivot'.asked # lastRun' =>
                /\ superseded \subseteq pivot'.open
                /\ pivot'.open # {} => superseded # {}]_vars

\* "A pivot supersedes the prior active rec": when the model names a day that
\* has an open recommendation, one that was open before this run is superseded,
\* the day of the run itself (a retry, a manual repeat) included.
PivotSupersedesPrior ==
    pivot.open # {} => \E i \in pivot.open : recs[i].supersededBy = Len(recs)

=============================================================================
