--------------------------- MODULE DisclosureViews ---------------------------
(***************************************************************************)
(* What the API tells of disclosures beside the portfolio:                 *)
(* GET /congressional/portfolio-overlap and                                *)
(* GET /congressional/disclosures/{filing_id} of                           *)
(* apps/api/routes/congressional.py.                                       *)
(*                                                                         *)
(* Both put the portfolio together from the broker, account by account,    *)
(* and from the positions table, one after the other and without a         *)
(* transaction around them; then they query the disclosures.  Trades,      *)
(* refreshes and ingestion go on meanwhile.                                *)
(*                                                                         *)
(* Tickers are numbered in their alphabetical order, disclosures in the    *)
(* order of their ids.  A holding is an account and a ticker.              *)
(***************************************************************************)
EXTENDS Integers, Sequences, FiniteSets

CONSTANTS
    Accounts,       \* the owner's accounts
    Traded,         \* the tickers there are
    Members,        \* members of Congress
    OverlapLimit,   \* limit of the overlap query (100)
    RecentLimit,    \* limit of a member's recent disclosures (8)
    MaxListed,      \* bound on the disclosures
    MaxOrders       \* bound on the trades

ASSUME ViewAssumption ==
    /\ Traded \subseteq Nat
    /\ OverlapLimit \in Nat \ {0} /\ RecentLimit \in Nat \ {0}
    /\ MaxListed \in Nat /\ MaxOrders \in Nat

VARIABLES
    holdings,   \* what the broker holds
    rows,       \* the positions table
    listed,     \* the disclosures
    orders,     \* trades so far
    asked,      \* the request: the overlap, or the detail of a disclosure
    view,       \* where the request is
    unread,     \* accounts the broker has not answered for
    book,       \* the broker's holdings as read
    table,      \* the table's rows as read
    shown,      \* the disclosures answered with
    before,     \* history: how many disclosures there were when it began
    steady,     \* history: holdings that have been in the table since it began
    everHeld    \* history: tickers held anywhere at some time since it began

worldVars == <<holdings, rows, listed, orders>>
requestVars == <<asked, view, unread, book, table, shown>>
viewHistory == <<before, steady, everHeld>>
viewVars == <<worldVars, requestVars, viewHistory>>

-----------------------------------------------------------------------------

Holding == Accounts \X Traded
Listing == [ticker : Traded, member : Members, day : 0 .. 1]
ViewSteps == {"idle", "accounts", "table", "query", "empty", "done", "failed"}

TickersOf(H) == {h[2] : h \in H}

ViewTypeOK ==
    /\ holdings \subseteq Holding /\ rows \subseteq Holding
    /\ listed \in Seq(Listing) /\ Len(listed) <= MaxListed
    /\ orders \in 0 .. MaxOrders
    /\ asked \in 0 .. MaxListed        \* 0 is the overlap
    /\ view \in ViewSteps
    /\ unread \subseteq Accounts
    /\ book \subseteq Holding /\ table \subseteq Holding
    /\ shown \subseteq DOMAIN listed
    /\ before \in 0 .. MaxListed
    /\ steady \subseteq Holding /\ everHeld \subseteq Traded

ViewInit ==
    /\ holdings \in SUBSET Holding /\ rows = holdings
    /\ listed = <<>> /\ orders = 0
    /\ asked = 0 /\ view = "idle"
    /\ unread = {} /\ book = {} /\ table = {} /\ shown = {}
    /\ before = 0 /\ steady = {} /\ everHeld = {}

-----------------------------------------------------------------------------
(***************************************************************************)
(* The world.                                                              *)
(***************************************************************************)

Order ==
    /\ orders < MaxOrders
    /\ orders' = orders + 1
    /\ \E h \in Holding :
        holdings' = IF h \in holdings THEN holdings \ {h} ELSE holdings \cup {h}
    /\ everHeld' = everHeld \cup TickersOf(holdings')
    /\ UNCHANGED <<rows, listed, requestVars, before, steady>>

\* A refresh of an account commits (RefreshPositions).
RefreshRows(a) ==
    LET now == {h \in rows : h[1] # a} \cup {h \in holdings : h[1] = a} IN
    /\ rows # now
    /\ rows' = now
    /\ steady' = steady \cap now
    /\ UNCHANGED <<holdings, listed, orders, requestVars, before, everHeld>>

\* A disclosure is ingested, whatever its day.
List ==
    /\ Len(listed) < MaxListed
    /\ \E d \in Listing : listed' = Append(listed, d)
    /\ UNCHANGED <<holdings, rows, orders, requestVars, viewHistory>>

-----------------------------------------------------------------------------
(***************************************************************************)
(* The request.                                                            *)
(***************************************************************************)

\* The overlap, or the detail of a disclosure there is (otherwise a 404).
Request(n) ==
    /\ view = "idle"
    /\ asked' = n
    /\ unread' = Accounts
    /\ view' = "accounts"
    /\ before' = Len(listed)
    /\ steady' = rows
    /\ everHeld' = TickersOf(holdings \cup rows)
    /\ UNCHANGED <<worldVars, book, table, shown>>

\* broker.get_positions of one account.
ReadBook(a) ==
    /\ view = "accounts" /\ a \in unread
    /\ unread' = unread \ {a}
    /\ book' = book \cup {h \in holdings : h[1] = a}
    /\ view' = IF unread' = {} THEN "table" ELSE "accounts"
    /\ UNCHANGED <<worldVars, asked, table, shown, viewHistory>>

\* Any exception: what the other accounts held is forgotten too.
BrokerRaises ==
    /\ view = "accounts"
    /\ book' = {}
    /\ view' = "table"
    /\ UNCHANGED <<worldVars, asked, unread, table, shown, viewHistory>>

\* The table's rows, whatever the broker said.
ReadTable ==
    /\ view = "table"
    /\ table' = rows
    /\ view' = IF asked # 0 \/ book \cup rows # {} THEN "query" ELSE "empty"
    /\ UNCHANGED <<worldVars, asked, unread, book, shown, viewHistory>>

\* _current_price: an error of the broker that is not a KeyError or a ValueError,
\* such as a missing token, is a 500.
PriceRaises ==
    /\ view = "query" /\ asked # 0
    /\ view' = "failed"
    /\ UNCHANGED <<worldVars, asked, unread, book, table, shown, viewHistory>>

\* Of the disclosures in D the n that come first in an order.
Leading(D, n, Precedes(_, _)) ==
    {i \in D : Cardinality({j \in D : Precedes(j, i)}) < n}

Newer(i, j) ==
    \/ listed[i].day > listed[j].day
    \/ listed[i].day = listed[j].day /\ i > j

\* By ticker, and then the newest first.
ByTicker(i, j) ==
    \/ listed[i].ticker < listed[j].ticker
    \/ listed[i].ticker = listed[j].ticker /\ Newer(i, j)

Portfolio == TickersOf(book \cup table)

Touching == {i \in DOMAIN listed : listed[i].ticker \in Portfolio}

\* Faulty variant: the limit is applied before the tickers are looked at.
OverlapUnfiltered == Touching \cap Leading(DOMAIN listed, OverlapLimit, ByTicker)

\* get_portfolio_overlap's query; the rows are then grouped by their tickers.
Overlap == Leading(Touching, OverlapLimit, ByTicker)

\* get_disclosure's query of what else the member disclosed.
Recent(n) ==
    Leading({i \in DOMAIN listed \ {n} : listed[i].member = listed[n].member},
            RecentLimit, Newer)

Query ==
    /\ view = "query"
    /\ shown' = IF asked = 0 THEN Overlap ELSE Recent(asked)
    /\ view' = "done"
    /\ UNCHANGED <<worldVars, asked, unread, book, table, viewHistory>>

ViewNext ==
    \/ Order
    \/ \E a \in Accounts : RefreshRows(a) \/ ReadBook(a)
    \/ List
    \/ \E n \in 0 .. Len(listed) : Request(n)
    \/ BrokerRaises
    \/ ReadTable
    \/ PriceRaises
    \/ Query

ViewSpec == ViewInit /\ [][ViewNext]_viewVars

-----------------------------------------------------------------------------
(***************************************************************************)
(* Properties.                                                             *)
(***************************************************************************)

\* "Recent Congressional disclosures that touch current portfolio tickers": while
\* the owner trades, a refresh commits and the broker fails between two accounts,
\* what is shown touches a ticker that was held at some time of the request, and
\* of a ticker that stayed in the table every earlier disclosure is shown unless
\* the limit went to tickers before it or to newer disclosures of its own.
OverlapMissesNothing ==
    (asked = 0 /\ view \in {"empty", "done"}) =>
        /\ {listed[i].ticker : i \in shown} \subseteq everHeld
        /\ \A i \in 1 .. before :
            listed[i].ticker \in TickersOf(steady) /\ i \notin shown =>
                Cardinality({j \in shown : ByTicker(j, i)}) = OverlapLimit

=============================================================================
