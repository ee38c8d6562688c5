-------------------------- MODULE RefreshPositions --------------------------
(***************************************************************************)
(* Reconciling the positions table with the broker:                        *)
(* application/portfolio/refresh_positions.py, run by                      *)
(* POST /portfolio/{account_id}/refresh in one UnitOfWork per request.     *)
(*                                                                         *)
(* Requests overlap.  Each reads the broker, then the local rows, then     *)
(* writes symbol by symbol (DELETE, INSERT) in its own READ COMMITTED      *)
(* transaction, and commits rows and events together.  The model keeps the *)
(* statements apart, with the row and unique-index waits between them.     *)
(*                                                                         *)
(* A position is a level, one number standing for its quantity and its     *)
(* unrealised P/L: both are compared with a threshold, Epsilon here.       *)
(***************************************************************************)
EXTENDS Integers, FiniteSets

CONSTANTS
    Symbols,        \* tickers the account may hold
    MaxLevel,       \* bound on a position's level
    Epsilon,        \* a larger change is drift
    Refreshers,     \* request handlers
    MaxTrades,      \* bound on changes at the broker
    MaxRefreshes    \* bound on refreshes started

ASSUME RefreshAssumption ==
    /\ MaxLevel \in Nat \ {0}
    /\ Epsilon \in Nat
    /\ MaxTrades \in Nat
    /\ MaxRefreshes \in Nat

VARIABLES
    broker,     \* broker[s]: the level held, 0 for none
    trades,     \* changes at the broker so far
    account,    \* the broker_accounts row exists
    local,      \* local[s]: the committed positions row
    outbox,     \* committed events
    clock,      \* refreshes started; also the time of the latest one
    pc, key, now, fresh, prior, todo, wrote, newAccount, events, seen,
    disturbed   \* history: another refresh committed since this one started

\* Per request: pc, the account identifier it was given, uow.clock.now(), the
\* broker's answer, the rows loaded, the symbols still to write, what its open
\* transaction has written, whether that includes the account row, the events
\* collected, and the row a blocked DELETE had in its snapshot.
reqVars == <<pc, key, now, fresh, prior, todo, wrote, newAccount, events, seen>>
vars == <<broker, trades, account, local, outbox, clock, reqVars, disturbed>>

-----------------------------------------------------------------------------

Levels == 1 .. MaxLevel
Rows == [level : Levels, asOf : 1 .. MaxRefreshes]
NoRow == [level |-> 0, asOf |-> 0]

\* What a transaction has done to a symbol: nothing, a DELETE, or DELETE and INSERT.
Untouched == -1
Deleted == 0

\* An event names the refresh it belongs to by that refresh's clock reading.
Kinds == {"reconciled", "missing_local", "moved", "missing_broker"}
Event == [kind : Kinds, symbol : Symbols, level : Levels, at : 1 .. MaxRefreshes]

Phases == {"idle", "started", "read", "writing", "blocked"}

TypeOK ==
    /\ broker \in [Symbols -> 0 .. MaxLevel]
    /\ trades \in 0 .. MaxTrades
    /\ account \in BOOLEAN
    /\ local \in [Symbols -> Rows \cup {NoRow}]
    /\ outbox \subseteq Event
    /\ clock \in 0 .. MaxRefreshes
    /\ pc \in [Refreshers -> Phases]
    /\ key \in [Refreshers -> {"hash", "alias"}]
    /\ now \in [Refreshers -> 0 .. MaxRefreshes]
    /\ fresh \in [Refreshers -> [Symbols -> 0 .. MaxLevel]]
    /\ prior \in [Refreshers -> [Symbols -> 0 .. MaxLevel]]
    /\ todo \in [Refreshers -> SUBSET Symbols]
    /\ wrote \in [Refreshers -> [Symbols -> Untouched .. MaxLevel]]
    /\ newAccount \in [Refreshers -> BOOLEAN]
    /\ \A r \in Refreshers : events[r] \subseteq Event
    /\ seen \in [Refreshers -> [symbol : Symbols, row : Rows \cup {NoRow}] \cup {NoRow}]
    /\ disturbed \in [Refreshers -> BOOLEAN]

Nothing == [s \in Symbols |-> 0]
CleanTx == [s \in Symbols |-> Untouched]

Init ==
    /\ broker \in [Symbols -> 0 .. MaxLevel]
    /\ trades = 0
    /\ account = FALSE
    /\ local = [s \in Symbols |-> NoRow]
    /\ outbox = {}
    /\ clock = 0
    /\ pc = [r \in Refreshers |-> "idle"]
    /\ key = [r \in Refreshers |-> "hash"]
    /\ now = [r \in Refreshers |-> 0]
    /\ fresh = [r \in Refreshers |-> Nothing]
    /\ prior = [r \in Refreshers |-> Nothing]
    /\ todo = [r \in Refreshers |-> {}]
    /\ wrote = [r \in Refreshers |-> CleanTx]
    /\ newAccount = [r \in Refreshers |-> FALSE]
    /\ events = [r \in Refreshers |-> {}]
    /\ seen = [r \in Refreshers |-> NoRow]
    /\ disturbed = [r \in Refreshers |-> FALSE]

-----------------------------------------------------------------------------
(***************************************************************************)
(* What a refresh concludes about one symbol.                              *)
(***************************************************************************)

Distance(x, y) == IF x > y THEN x - y ELSE y - x

\* Faulty variant: the threshold test is off by one.
DetectDriftLoose(f, p) ==
    IF p = 0 THEN {"missing_local"}
    ELSE IF Distance(f, p) > Epsilon + 1 THEN {"moved"}
    ELSE {}

\* _detect_drift: at most one kind of drift for a symbol the broker reports.
DetectDrift(f, p) ==
    IF p = 0 THEN {"missing_local"}
    ELSE IF Distance(f, p) > Epsilon THEN {"moved"}
    ELSE {}

\* The events a reported symbol adds, drift before reconciliation.  The account id
\* they carry is left out: it is the request's own, masked if that was.
ReportedEvents(r, s) ==
    {[kind |-> k, symbol |-> s, level |-> fresh[r][s], at |-> now[r]] :
        k \in DetectDrift(fresh[r][s], prior[r][s]) \cup {"reconciled"}}

\* The CRITICAL event of a symbol the broker has stopped reporting.
OrphanEvents(r, s) ==
    {[kind |-> "missing_broker", symbol |-> s, level |-> prior[r][s], at |-> now[r]]}

Reported(r) == {s \in Symbols : fresh[r][s] # 0}

\* Rows the broker no longer reports.
Orphans(r) == {s \in Symbols : fresh[r][s] = 0 /\ prior[r][s] # 0}

-----------------------------------------------------------------------------
(***************************************************************************)
(* The broker, and the steps of one request.                               *)
(***************************************************************************)

\* A fill or a price move at the broker.
Trade ==
    /\ trades < MaxTrades
    /\ trades' = trades + 1
    /\ \E s \in Symbols, l \in 0 .. MaxLevel :
        /\ l # broker[s]
        /\ broker' = [broker EXCEPT ![s] = l]
    /\ UNCHANGED <<account, local, outbox, clock, reqVars, disturbed>>

\* The request takes its time stamp before it reads anything.  The account is
\* named by its Schwab hash or by an alias the adapter resolves to it.
Start(r) ==
    /\ pc[r] = "idle"
    /\ clock < MaxRefreshes
    /\ clock' = clock + 1
    /\ now' = [now EXCEPT ![r] = clock + 1]
    /\ key' = [key EXCEPT ![r] = "hash"] \/ key' = [key EXCEPT ![r] = "alias"]
    /\ pc' = [pc EXCEPT ![r] = "started"]
    /\ disturbed' = [disturbed EXCEPT ![r] = FALSE]
    /\ UNCHANGED <<broker, trades, account, local, outbox,
                   fresh, prior, todo, wrote, newAccount, events, seen>>

\* broker.get_positions: one consistent answer.
ReadBroker(r) ==
    /\ pc[r] = "started"
    /\ fresh' = [fresh EXCEPT ![r] = broker]
    /\ pc' = [pc EXCEPT ![r] = "read"]
    /\ UNCHANGED <<broker, trades, account, local, outbox, clock,
                   key, now, prior, todo, wrote, newAccount, events, seen, disturbed>>

\* The rows stored under the identifier the request was given: positions are
\* stored under the hash, so an alias finds none.
PriorRows(r) == IF key[r] = "hash" THEN [s \in Symbols |-> local[s].level] ELSE Nothing

\* _upsert_local_account, then _load_local_positions.  The account row is
\* inserted when the broker lists the account under that very identifier (the
\* listing may fail, which is ignored); an INSERT of the same row by another
\* open request makes this one wait.
Load(r) ==
    /\ pc[r] = "read"
    /\ \E described \in BOOLEAN :
        LET inserts == described /\ key[r] = "hash" /\ ~account IN
        /\ inserts => \A v \in Refreshers \ {r} : ~newAccount[v]
        /\ newAccount' = [newAccount EXCEPT ![r] = inserts]
    /\ prior' = [prior EXCEPT ![r] = PriorRows(r)]
    /\ todo' = [todo EXCEPT ![r] =
            {s \in Symbols : fresh[r][s] # 0 \/ PriorRows(r)[s] # 0}]
    /\ pc' = [pc EXCEPT ![r] = "writing"]
    /\ UNCHANGED <<broker, trades, account, local, outbox, clock,
                   key, now, fresh, wrote, events, seen, disturbed>>

-----------------------------------------------------------------------------
(***************************************************************************)
(* Writing one symbol.                                                     *)
(***************************************************************************)

TouchedByOther(r, s) == \E v \in Refreshers \ {r} : wrote[v][s] # Untouched

\* Reported symbols first, then the orphans.
MayWrite(r, s) ==
    /\ s \in todo[r]
    /\ s \in Orphans(r) => todo[r] \subseteq Orphans(r)

\* A DELETE waits for another transaction that has deleted the row it sees; an
\* INSERT, for one that has inserted the same (account, symbol).
MustWait(r, s) ==
    /\ TouchedByOther(r, s)
    /\ s \in Reported(r) \/ local[s] # NoRow

\* Faulty variant: the DELETE of an orphan is forgotten.
WriteEffectKeepsOrphan(r, s) ==
    /\ s \in Reported(r) => account \/ newAccount[r]
    /\ wrote' = [wrote EXCEPT ![r][s] = IF s \in Reported(r) THEN fresh[r][s] ELSE Untouched]

\* DELETE and INSERT of a reported symbol, which need the account row; DELETE
\* alone of an orphan, which may find nothing left to delete.
WriteEffect(r, s) ==
    /\ s \in Reported(r) => account \/ newAccount[r]
    /\ wrote' = [wrote EXCEPT ![r][s] =
            IF s \in Reported(r) THEN fresh[r][s]
            ELSE IF local[s] # NoRow THEN Deleted ELSE Untouched]

\* The symbol is dealt with; its events are remembered for the commit.
Done(r, s) ==
    /\ todo' = [todo EXCEPT ![r] = @ \ {s}]
    /\ events' = [events EXCEPT ![r] =
            @ \cup (IF s \in Reported(r) THEN ReportedEvents(r, s) ELSE OrphanEvents(r, s))]

Write(r, s) ==
    /\ pc[r] = "writing"
    /\ MayWrite(r, s)
    /\ ~MustWait(r, s)
    /\ WriteEffect(r, s)
    /\ Done(r, s)
    /\ UNCHANGED <<broker, trades, account, local, outbox, clock,
                   pc, key, now, fresh, prior, newAccount, seen, disturbed>>

\* The statement has taken its snapshot and waits.
Block(r, s) ==
    /\ pc[r] = "writing"
    /\ MayWrite(r, s)
    /\ MustWait(r, s)
    /\ seen' = [seen EXCEPT ![r] = [symbol |-> s, row |-> local[s]]]
    /\ pc' = [pc EXCEPT ![r] = "blocked"]
    /\ UNCHANGED <<broker, trades, account, local, outbox, clock,
                   key, now, fresh, prior, todo, wrote, newAccount, events, disturbed>>

\* The wait is over.  A row put there meanwhile is not in the DELETE's
\* snapshot: a reported symbol's INSERT would violate the unique constraint
\* (see Fail), an orphan's DELETE leaves the new row alone.
Unblock(r) ==
    LET s == seen[r].symbol
        replaced == local[s] \notin {seen[r].row, NoRow}
    IN  /\ pc[r] = "blocked"
        /\ ~TouchedByOther(r, s)
        /\ IF replaced THEN s \in Orphans(r) /\ UNCHANGED wrote ELSE WriteEffect(r, s)
        /\ Done(r, s)
        /\ pc' = [pc EXCEPT ![r] = "writing"]
        /\ seen' = [seen EXCEPT ![r] = NoRow]
        /\ UNCHANGED <<broker, trades, account, local, outbox, clock,
                       key, now, fresh, prior, newAccount, disturbed>>

-----------------------------------------------------------------------------
(***************************************************************************)
(* The end of a request.                                                   *)
(***************************************************************************)

\* The request's variables go back to nothing.
Reset(r) ==
    /\ pc' = [pc EXCEPT ![r] = "idle"]
    /\ key' = [key EXCEPT ![r] = "hash"]
    /\ now' = [now EXCEPT ![r] = 0]
    /\ fresh' = [fresh EXCEPT ![r] = Nothing]
    /\ prior' = [prior EXCEPT ![r] = Nothing]
    /\ todo' = [todo EXCEPT ![r] = {}]
    /\ wrote' = [wrote EXCEPT ![r] = CleanTx]
    /\ newAccount' = [newAccount EXCEPT ![r] = FALSE]
    /\ events' = [events EXCEPT ![r] = {}]
    /\ seen' = [seen EXCEPT ![r] = NoRow]

\* Faulty variant: events are collected only when there was drift.
CommittedEventsOnDriftOnly(r) ==
    IF \E e \in events[r] : e.kind # "reconciled" THEN events[r] ELSE {}

\* execute hands the whole list to uow.collect, drift or no drift.
CommittedEvents(r) == events[r]

\* UnitOfWork.commit: rows, account row and events become visible at once.
Commit(r) ==
    /\ pc[r] = "writing"
    /\ todo[r] = {}
    /\ local' = [s \in Symbols |->
            CASE wrote[r][s] = Untouched -> local[s]
              [] wrote[r][s] = Deleted -> NoRow
              [] OTHER -> [level |-> wrote[r][s], asOf |-> now[r]]]
    /\ account' = (account \/ newAccount[r])
    /\ outbox' = outbox \cup CommittedEvents(r)
    /\ disturbed' = [v \in Refreshers |-> disturbed[v] \/ (v # r /\ pc[v] # "idle")]
    /\ Reset(r)
    /\ UNCHANGED <<broker, trades, clock>>

\* The request raises and its transaction rolls back: the broker or the
\* database fails, a unique or foreign key constraint is violated, the database
\* picks it as a deadlock victim, or the client goes away.
Fail(r) ==
    /\ pc[r] # "idle"
    /\ Reset(r)
    /\ UNCHANGED <<broker, trades, account, local, outbox, clock, disturbed>>

Next ==
    \/ Trade
    \/ \E r \in Refreshers :
        \/ Start(r)
        \/ ReadBroker(r)
        \/ Load(r)
        \/ \E s \in Symbols : Write(r, s) \/ Block(r, s)
        \/ Unblock(r)
        \/ Commit(r)
        \/ Fail(r)

Spec == Init /\ [][Next]_vars

-----------------------------------------------------------------------------
(***************************************************************************)
(* Properties.                                                             *)
(***************************************************************************)

\* Rows and events are committed together: every stored position is the one
\* reported by the PositionReconciled event of the same refresh.
RowsHaveEvents ==
    \A s \in Symbols : local[s] # NoRow =>
        [kind |-> "reconciled", symbol |-> s, level |-> local[s].level, at |-> local[s].asOf]
            \in outbox

\* A refresh that committed in this step, with no other commit since it started.
CommitsAlone(r) ==
    pc[r] = "writing" /\ pc'[r] = "idle" /\ outbox' # outbox /\ ~disturbed[r] /\ key[r] = "hash"

\* Undisturbed, a refresh leaves exactly what the broker reported to it:
\* vanished positions are gone, new ones are there, time stamps move forward.
AloneMatchesBroker ==
    [][\A r \in Refreshers : CommitsAlone(r) =>
        \A s \in Symbols :
            /\ local'[s].level = fresh[r][s]
            /\ local'[s] # NoRow => local'[s].asOf > local[s].asOf]_vars

\* A change worth an event: a row appears, vanishes or moves past the threshold.
Material(old, new) ==
    \/ (old = 0) # (new = 0)
    \/ Distance(old, new) > Epsilon

\* The drift events one step adds for a symbol.
DriftAdded(s) == {e \in outbox' \ outbox : e.symbol = s /\ e.kind # "reconciled"}

\* Undisturbed, a refresh raises one drift event for each material change it
\* makes and none for the rest, and the CRITICAL kind only for a vanished row.
AloneAnnouncesDrift ==
    [][\A r \in Refreshers : CommitsAlone(r) =>
        \A s \in Symbols :
            /\ Cardinality(DriftAdded(s)) =
                   IF Material(local[s].level, local'[s].level) THEN 1 ELSE 0
            /\ \A e \in DriftAdded(s) :
                   e.kind = "missing_broker" <=> local'[s] = NoRow]_vars

\* "PositionDriftDetected if any drift": no step moves a stored position past
\* the threshold without a drift event for it.
NoSilentChange ==
    [][\A s \in Symbols :
        Material(local[s].level, local'[s].level) => DriftAdded(s) # {}]_vars

=============================================================================
