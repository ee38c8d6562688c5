----------------------------- MODULE LivePrices -----------------------------
(***************************************************************************)
(* GET /portfolio/{account_id}?live=true: apps/api/routes/portfolio.py     *)
(* with application/market_data/refresh_quotes.py over                     *)
(* adapters/massive/client.py.                                             *)
(*                                                                         *)
(* One request reads the account, then the positions, then the prices,     *)
(* and re-prices the account it read first.  The owner trades and the      *)
(* market moves in between.  The broker is Schwab or the paper broker,     *)
(* which only its seed ever writes to.                                     *)
(*                                                                         *)
(* Prices count tenths of the smallest price Money can hold, so a price    *)
(* under Unit is one that rounds to nothing.                               *)
(***************************************************************************)
EXTENDS Integers, FiniteSets, FiniteSetsExt

CONSTANTS
    Instruments,    \* what the account may hold
    Unlisted,       \* those Massive has no price for: CUSIPs, funds
    PriceLevels,    \* prices a share may have
    Unit,           \* 0.0001 in a price
    MaxShares,      \* bound on the shares held
    MaxMoves        \* bound on trades

ASSUME PriceAssumption ==
    /\ IsFiniteSet(Instruments) /\ Unlisted \subseteq Instruments
    /\ IsFiniteSet(PriceLevels) /\ PriceLevels \subseteq Nat \ {0}
    /\ Unit \in Nat \ {0}
    /\ MaxShares \in Nat /\ MaxMoves \in Nat

VARIABLES
    paper,      \* the broker is the paper one
    balance,    \* cash at the broker
    shares,     \* shares[s] held
    mark,       \* mark[s]: the price the broker values a share at
    close,      \* close[s]: the previous session's close
    moves,      \* trades so far
    request,    \* where the request is
    reading,    \* its first reading: cash, shares and market values
    positions,  \* its second reading: shares
    answer,     \* what it answered
    traded      \* history: a trade fell between the two readings

marketVars == <<paper, balance, shares, mark, close, moves>>
priceVars == <<marketVars, request, reading, positions, answer, traded>>

-----------------------------------------------------------------------------

NoShares == [s \in Instruments |-> 0]
NoAccount == [cash |-> 0, shares |-> NoShares, value |-> NoShares]
NoAnswer == [kind |-> "none", netLiquidation |-> 0]

Requests == {"idle", "account", "positions", "done"}
AnswerKinds == {"none", "plain", "live", "failed"}

PriceTypeOK ==
    /\ paper \in BOOLEAN
    /\ balance \in Int /\ shares \in [Instruments -> 0 .. MaxShares]
    /\ mark \in [Instruments -> PriceLevels] /\ close \in [Instruments -> PriceLevels]
    /\ moves \in 0 .. MaxMoves
    /\ request \in Requests
    /\ reading \in [cash : Int, shares : [Instruments -> 0 .. MaxShares],
                    value : [Instruments -> Nat]]
    /\ positions \in [Instruments -> 0 .. MaxShares]
    /\ answer \in [kind : AnswerKinds, netLiquidation : Int]
    /\ traded \in BOOLEAN

\* The paper broker starts from the holdings file or its sample account.
PriceInit ==
    /\ paper \in BOOLEAN
    /\ balance = 0
    /\ shares \in [Instruments -> 0 .. MaxShares]
    /\ mark \in [Instruments -> PriceLevels]
    /\ close \in [Instruments -> PriceLevels]
    /\ moves = 0
    /\ request = "idle"
    /\ reading = NoAccount /\ positions = NoShares
    /\ answer = NoAnswer
    /\ traded = FALSE

-----------------------------------------------------------------------------
(***************************************************************************)
(* The owner and the market.                                               *)
(***************************************************************************)

\* One share bought or sold.  Nothing is ever filled at the paper broker.  Short
\* positions and fractions of a share are left out.
TradeShare(s) ==
    /\ ~paper
    /\ moves < MaxMoves
    /\ moves' = moves + 1
    /\ \/ /\ shares[s] < MaxShares
          /\ shares' = [shares EXCEPT ![s] = @ + 1]
          /\ balance' = balance - mark[s]
       \/ /\ shares[s] > 0
          /\ shares' = [shares EXCEPT ![s] = @ - 1]
          /\ balance' = balance + mark[s]
    /\ traded' = (traded \/ request = "account")
    /\ UNCHANGED <<paper, mark, close, request, reading, positions, answer>>

-----------------------------------------------------------------------------
(***************************************************************************)
(* The request.                                                            *)
(***************************************************************************)

\* To the nearest (no price of an instance is a tie).
Rounded(price) == ((2 * price + Unit) \div (2 * Unit)) * Unit

\* What get_account reports: a position's market value is money.
Valuation ==
    [cash |-> balance, shares |-> shares,
     value |-> [s \in Instruments |-> Rounded(shares[s] * mark[s])]]

\* broker.get_account: one consistent reading.
ReadAccount ==
    /\ request = "idle"
    /\ reading' = Valuation
    /\ request' = "account"
    /\ UNCHANGED <<marketVars, positions, answer, traded>>

\* Without live=true or without market data the first reading is the answer.
AnswerPlain ==
    /\ request = "account"
    /\ answer' = [NoAnswer EXCEPT !.kind = "plain"]
    /\ request' = "done"
    /\ UNCHANGED <<marketVars, reading, positions, traded>>

\* broker.get_positions: another request.
ReadPositions ==
    /\ request = "account"
    /\ positions' = shares
    /\ request' = "positions"
    /\ UNCHANGED <<marketVars, reading, answer, traded>>

\* get_quotes.  The tape is what the snapshot endpoint lists: 0 for a ticker it
\* has no price of, and for all of them while the market is closed or the tier
\* lacks the endpoint.  Those are asked for one by one at /prev, which has the
\* close of the ones it answers for.
Quotes(tape, answered) ==
    [s \in Instruments |-> IF tape[s] > 0 THEN tape[s]
                           ELSE IF s \in answered THEN close[s] ELSE 0]

Tapes == {tape \in [Instruments -> PriceLevels \cup {0}] : \A s \in Unlisted : tape[s] = 0}

\* Faulty variant: a price that rounds to nothing prices the position at nothing.
LiveValueOfDust(q, s) ==
    IF q[s] > 0 /\ positions[s] > 0 THEN Rounded(q[s]) * positions[s] ELSE reading.value[s]

\* refresh_quotes and _apply_quote_enrichment: the position read second at a
\* usable price, else what the account was valued at.
LiveValue(q, s) ==
    IF Rounded(q[s]) > 0 /\ positions[s] > 0 THEN Rounded(q[s]) * positions[s]
    ELSE reading.value[s]

Fetched(q) == {s \in Instruments : positions[s] > 0 /\ Rounded(q[s]) > 0}

Held == {s \in Instruments : reading.shares[s] > 0}

LiveTotal(q) == MapThenSumSet(LAMBDA s : LiveValue(q, s), Held)

\* _apply_account_live_totals, when any quote was usable: over the positions of
\* the first reading.
AnswerLive ==
    /\ request = "positions"
    /\ \E tape \in Tapes, answered \in SUBSET (Instruments \ Unlisted) :
        LET q == Quotes(tape, answered) IN
        answer' =
            IF Fetched(q) = {} THEN [NoAnswer EXCEPT !.kind = "plain"]
            ELSE [kind |-> "live", netLiquidation |-> reading.cash + LiveTotal(q)]
    /\ request' = "done"
    /\ UNCHANGED <<marketVars, reading, positions, traded>>

\* An unknown account is a 404; Massive failing with anything but 401 or 403, or
\* one row it cannot parse, fails the request.
RequestFails ==
    /\ request \in {"account", "positions"}
    /\ answer' = [NoAnswer EXCEPT !.kind = "failed"]
    /\ request' = "done"
    /\ UNCHANGED <<marketVars, reading, positions, traded>>

PriceNext ==
    \/ \E s \in Instruments : TradeShare(s)
    \/ ReadAccount
    \/ AnswerPlain
    \/ ReadPositions
    \/ AnswerLive
    \/ RequestFails

PriceSpec == PriceInit /\ [][PriceNext]_priceVars

-----------------------------------------------------------------------------
(***************************************************************************)
(* Properties.                                                             *)
(***************************************************************************)

\* What a position of the first reading may count for: the value it was read with,
\* or its shares at a price that counts.
Lowest(s)  == Min({reading.value[s], Unit * reading.shares[s]})
Highest(s) == Max({reading.value[s], Rounded(Max(PriceLevels)) * reading.shares[s]})

\* "Live re-pricing with a previous-close fallback, so the portfolio reconciles
\* 24/7": unless a trade fell between the two readings, the live total is the
\* cash and every position at what the broker valued it or at some usable price.
\* No quote that is missing, zero or too small to count takes a position out.
LiveTotalReconciles ==
    answer.kind = "live" /\ ~traded =>
        LET worth == answer.netLiquidation - reading.cash
        IN  /\ worth >= MapThenSumSet(Lowest, Held)
            /\ worth <= MapThenSumSet(Highest, Held)

=============================================================================
