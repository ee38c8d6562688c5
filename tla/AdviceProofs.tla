---------------------------- MODULE AdviceProofs ----------------------------
(***************************************************************************)
(* Theorems about the components that MCAdvice runs: RecommendationLedger, *)
(* for any symbols, windows, amounts, lots and tolerances, and any number  *)
(* of days, trades and runs; AdvisorCouncil, for any number of tickers,    *)
(* personas, filings, runs and deaths; PlaceOrder, for any number of       *)
(* operators, attempts, commands, prices and moves of the market; and that *)
(* MCAdvice behaves as each of them does (CompanyFacts: see FactsProofs).  *)
(***************************************************************************)
EXTENDS FactsProofs, MCAdvice

-----------------------------------------------------------------------------
(***************************************************************************)
(* The recommendation ledger.                                              *)
(***************************************************************************)

USE LedgerAssumption

\* The type invariant, with the shape of the two readings.
Types ==
    /\ TypeOK
    /\ livePos \in [value : Holdings \cup {None}, at : 0 .. MaxTrades \cup {None}]
    /\ liveCash \in [value : Int, at : 0 .. MaxTrades \cup {None}]

\* A reading says which trades it includes, so two readings of the same trades
\* agree; the cash is read after the positions.
Readings ==
    /\ livePos.at # None =>
        livePos.value \in Holdings /\ livePos.at <= trades /\ (livePos.at = trades => livePos.value = qty)
    /\ liveCash # NoReading =>
        /\ livePos.at # None /\ livePos.at <= liveCash.at /\ liveCash.at <= trades
        /\ liveCash.at = trades => liveCash.value = cash
    /\ phase \in {"idle", "begun"} => livePos = NoReading
    /\ phase = "positions" => livePos.at # None
    /\ phase # "asking" => liveCash = NoReading

\* A recommendation's baseline is such a pair of readings, no later than the
\* run's own, and acting on it came later.
Sound(rec) ==
    /\ rec.baselineAt = None \/ rec.baselineAt \in 0 .. trades
    /\ rec.baselineQty # None =>
        /\ rec.symbol \in Symbols /\ rec.baselineAt # None
        /\ rec.baselineAt = trades => rec.baselineQty = qty[rec.symbol]
        /\ livePos.at # None =>
            /\ rec.baselineAt <= livePos.at
            /\ rec.baselineAt = livePos.at => rec.baselineQty = livePos.value[rec.symbol]
    /\ rec.baselineCash # NoReading =>
        /\ rec.baselineAt # None
        /\ rec.baselineAt <= rec.baselineCash.at /\ rec.baselineCash.at <= trades
        /\ rec.baselineCash.at = trades => rec.baselineCash.value = cash
    /\ rec.status = "acted_on" => rec.baselineAt # None /\ rec.actedAt > rec.baselineAt

AllSound ==
    /\ \A i \in DOMAIN recs : Sound(recs[i])
    /\ \A i \in DOMAIN draft : Sound(draft[i])

\* The open transaction has the committed rows, resolved ones untouched, and
\* nothing that is due; outside of a run there is none.
DraftFollows ==
    /\ phase = "idle" => draft = <<>>
    /\ phase # "idle" =>
        /\ Len(draft) = Len(recs)
        /\ \A i \in DOMAIN recs : recs[i].status # "active" => draft[i] = recs[i]
        /\ \A i \in DOMAIN draft : draft[i].status = "active" => draft[i].due > today
    /\ \A i \in DOMAIN draft : draft[i].supersededBy <= Len(recs) /\ draft[i].due > draft[i].digestDate

\* The inductive invariant.
LedgerIInv == Types /\ Readings /\ AllSound /\ DraftFollows /\ NothingOverdueStaysOpen

-----------------------------------------------------------------------------

LEMMA LedgerInitIInv == Init => LedgerIInv
<1> SUFFICES ASSUME Init PROVE LedgerIInv
  OBVIOUS
<1> USE DEF Init
<1>1. Types
  BY DEF Types, TypeOK, Days, Holdings, Phases, NoReading, None
<1>2. Readings /\ AllSound
  BY DEF Readings, AllSound, NoReading, None
<1>3. DraftFollows /\ NothingOverdueStaysOpen
  BY DEF DraftFollows, NothingOverdueStaysOpen
<1>4. QED
  BY <1>1, <1>2, <1>3 DEF LedgerIInv

\* A trade leaves every reading before it.
LEMMA TradeStep ==
    ASSUME LedgerIInv, NEW s \in Symbols, NEW lot \in Lots, Trade(s, lot) PROVE LedgerIInv'
<1> USE DEF LedgerIInv
<1>1. UNCHANGED <<day, recs, lastRun, runs, runVars, pivot>> /\ trades' = trades + 1
      /\ trades' \in 0 .. MaxTrades /\ trades \in Nat
  BY DEF Trade, Types, TypeOK
<1>2. qty' \in Holdings /\ cash' \in Int
  <2>1. qty \in [Symbols -> Nat] /\ cash \in Int /\ lot \in Nat
    BY DEF Types, TypeOK, Holdings
  <2>2. CASE qty' = [qty EXCEPT ![s] = @ + lot] /\ cash' = cash - lot
    BY <2>1, <2>2 DEF Holdings
  <2>3. CASE qty[s] >= lot /\ qty' = [qty EXCEPT ![s] = @ - lot] /\ cash' = cash + lot
    <3>1. qty[s] - lot \in Nat
      BY <2>1, <2>3
    <3>2. QED
      BY <2>1, <2>3, <3>1 DEF Holdings
  <2>4. QED
    BY <2>2, <2>3 DEF Trade
<1>3. Types'
  BY <1>1, <1>2 DEF Types, TypeOK, runVars
<1>4. Readings'
  <2>1. livePos.at \in Int /\ liveCash.at \in Int
    BY DEF Types, None
  <2>2. QED
    BY <1>1, <2>1 DEF Readings, runVars
<1>5. ASSUME NEW rec \in Recommendation, Sound(rec) PROVE Sound(rec)'
  BY <1>1, <1>5 DEF Sound, runVars, None, Recommendation
<1>6. AllSound'
  BY <1>1, <1>5 DEF AllSound, runVars, Types, TypeOK
<1>7. DraftFollows' /\ NothingOverdueStaysOpen'
  BY <1>1 DEF DraftFollows, NothingOverdueStaysOpen, runVars
<1>8. QED
  BY <1>3, <1>4, <1>6, <1>7

LEMMA NextDayStep == LedgerIInv /\ NextDay => LedgerIInv'
<1> SUFFICES ASSUME LedgerIInv, NextDay PROVE LedgerIInv'
  OBVIOUS
<1> USE DEF LedgerIInv
<1>1. UNCHANGED <<accountVars, recs, lastRun, runs, runVars, pivot>> /\ day' \in Days
  BY DEF NextDay, Types, TypeOK, Days
<1>2. Types'
  BY <1>1 DEF Types, TypeOK, runVars, accountVars
<1>3. Readings' /\ AllSound' /\ DraftFollows' /\ NothingOverdueStaysOpen'
  BY <1>1 DEF Readings, AllSound, Sound, DraftFollows, NothingOverdueStaysOpen, runVars, accountVars
<1>4. QED
  BY <1>2, <1>3

\* Expiry resolves what is due and nothing else.
LEMMA BeginStep == LedgerIInv /\ Begin => LedgerIInv'
<1> SUFFICES ASSUME LedgerIInv, Begin PROVE LedgerIInv'
  OBVIOUS
<1> USE DEF LedgerIInv
<1>1. UNCHANGED <<day, accountVars, recs, lastRun, livePos, liveCash>> /\ phase = "idle"
      /\ phase' = "begun" /\ today' = day /\ draft' = ExpireOverdue(recs, day)
      /\ runs' \in 0 .. MaxRuns
  BY DEF Begin, Types, TypeOK
<1>2. recs \in Seq(Recommendation) /\ DOMAIN recs = 1 .. Len(recs) /\ Len(recs) \in Nat /\ day \in Days
  BY DEF Types, TypeOK
<1>3. ASSUME NEW i \in DOMAIN recs
      PROVE  /\ \/ draft'[i] = recs[i] /\ (recs[i].status = "active" => recs[i].due > day)
                \/ recs[i].status = "active" /\ draft'[i] = [recs[i] EXCEPT !.status = "expired"]
             /\ draft'[i] \in Recommendation
  <2>1. recs[i] \in Recommendation
    BY <1>2
  <2>2. draft'[i] = IF recs[i].status = "active" /\ recs[i].due <= day
                    THEN [recs[i] EXCEPT !.status = "expired"] ELSE recs[i]
    BY <1>1 DEF ExpireOverdue
  <2>3. [recs[i] EXCEPT !.status = "expired"] \in Recommendation
    BY <2>1 DEF Recommendation, Statuses
  <2>4. recs[i].due \in Nat /\ day \in Nat
    BY <1>2, <2>1 DEF Recommendation, Days
  <2>5. CASE recs[i].status = "active" /\ recs[i].due <= day
    BY <2>2, <2>3, <2>5
  <2>6. CASE ~(recs[i].status = "active" /\ recs[i].due <= day)
    BY <2>1, <2>2, <2>4, <2>6
  <2>7. QED
    BY <2>5, <2>6
<1>4. draft' \in Seq(Recommendation) /\ Len(draft') = Len(recs) /\ DOMAIN draft' = DOMAIN recs
  BY <1>1, <1>2, <1>3 DEF ExpireOverdue
<1>5. Types'
  BY <1>1, <1>2, <1>4 DEF Types, TypeOK, accountVars, Phases
<1>6. Readings'
  BY <1>1 DEF Readings, accountVars
<1>7. AllSound'
  <2>1. ASSUME NEW i \in DOMAIN recs PROVE Sound(recs[i])' /\ Sound(draft[i])'
    <3>1. Sound(recs[i]) /\ recs[i] \in Recommendation
      BY <1>2 DEF AllSound
    <3>2. Sound(recs[i])'
      BY <1>1, <3>1 DEF Sound, accountVars
    <3>3. CASE draft'[i] = recs[i]
      BY <1>1, <3>1, <3>3 DEF Sound, accountVars
    <3>4. CASE draft'[i] = [recs[i] EXCEPT !.status = "expired"]
      BY <1>1, <3>1, <3>4 DEF Sound, accountVars, Recommendation
    <3>5. QED
      BY <1>3, <3>2, <3>3, <3>4
  <2>2. QED
    BY <1>1, <1>4, <2>1 DEF AllSound, Sound, accountVars
<1>8. DraftFollows'
  <2>1. ASSUME NEW i \in DOMAIN recs
        PROVE  /\ recs[i].status # "active" => draft'[i] = recs[i]
               /\ draft'[i].status = "active" => draft'[i].due > day
               /\ draft'[i].supersededBy <= Len(recs) /\ draft'[i].due > draft'[i].digestDate
    <3>1. recs[i] \in Recommendation /\ recs[i].supersededBy <= Len(recs) /\ recs[i].due > recs[i].digestDate
      BY <1>2 DEF Types, TypeOK
    <3>2. CASE draft'[i] = recs[i] /\ (recs[i].status = "active" => recs[i].due > day)
      BY <3>1, <3>2
    <3>3. CASE recs[i].status = "active" /\ draft'[i] = [recs[i] EXCEPT !.status = "expired"]
      BY <3>1, <3>3 DEF Recommendation
    <3>4. QED
      BY <1>3, <3>2, <3>3
  <2>2. QED
    BY <1>1, <1>4, <2>1 DEF DraftFollows
<1>9. NothingOverdueStaysOpen'
  BY <1>1 DEF NothingOverdueStaysOpen
<1>10. QED
  BY <1>5, <1>6, <1>7, <1>8, <1>9

\* The two requests of a snapshot, or the lack of it.
LEMMA ReadPositionsStep == LedgerIInv /\ ReadPositions => LedgerIInv'
<1> SUFFICES ASSUME LedgerIInv, ReadPositions PROVE LedgerIInv'
  OBVIOUS
<1> USE DEF LedgerIInv
<1>1. UNCHANGED <<day, accountVars, recs, lastRun, runs, today, draft, liveCash, pivot>>
      /\ phase = "begun" /\ phase' = "positions" /\ livePos' = [value |-> qty, at |-> trades]
  BY DEF ReadPositions
<1>2. trades \in 0 .. MaxTrades /\ qty \in Holdings /\ None = -1
  BY DEF Types, TypeOK, None
<1>3. Types'
  BY <1>1, <1>2 DEF Types, TypeOK, accountVars, Phases
<1>4. Readings'
  BY <1>1, <1>2 DEF Readings, accountVars
<1>5. ASSUME NEW rec \in Recommendation, Sound(rec) PROVE Sound(rec)'
  BY <1>1, <1>2, <1>5 DEF Sound, accountVars
<1>6. AllSound'
  BY <1>1, <1>5 DEF AllSound, Types, TypeOK
<1>7. DraftFollows' /\ NothingOverdueStaysOpen'
  BY <1>1 DEF DraftFollows, NothingOverdueStaysOpen
<1>8. QED
  BY <1>3, <1>4, <1>6, <1>7

LEMMA SnapshotUnavailableStep == LedgerIInv /\ SnapshotUnavailable => LedgerIInv'
<1> SUFFICES ASSUME LedgerIInv, SnapshotUnavailable PROVE LedgerIInv'
  OBVIOUS
<1> USE DEF LedgerIInv
<1>1. UNCHANGED <<day, accountVars, recs, lastRun, runs, today, draft, liveCash, pivot>>
      /\ phase \in {"begun", "positions"} /\ phase' = "asking" /\ livePos' = NoReading
  BY DEF SnapshotUnavailable
<1>2. NoReading.at = None /\ NoReading.value = None
  BY DEF NoReading
<1>3. Types'
  BY <1>1, <1>2 DEF Types, TypeOK, accountVars, Phases, NoReading
<1>4. Readings'
  BY <1>1, <1>2 DEF Readings, accountVars
<1>5. ASSUME NEW rec \in Recommendation, Sound(rec) PROVE Sound(rec)'
  BY <1>1, <1>2, <1>5 DEF Sound, accountVars
<1>6. AllSound'
  BY <1>1, <1>5 DEF AllSound, Types, TypeOK
<1>7. DraftFollows' /\ NothingOverdueStaysOpen'
  BY <1>1 DEF DraftFollows, NothingOverdueStaysOpen
<1>8. QED
  BY <1>3, <1>4, <1>6, <1>7

\* What the account's movement accounts for moved after the baseline.
LEMMA ActedOnLater ==
    ASSUME LedgerIInv, NEW rec \in Recommendation, Sound(rec), livePos.at # None,
           CheckOne(rec, livePos.value, cash)
    PROVE  rec.baselineAt # None /\ trades > rec.baselineAt
<1> USE DEF LedgerIInv
<1>1. trades \in Nat /\ cash \in Int /\ livePos.at \in Nat /\ livePos.at <= trades
      /\ livePos.value \in [Symbols -> Nat]
  BY DEF Types, TypeOK, Readings, Holdings, None
<1>2. CASE QuantityGrew(rec, livePos.value)
  <2>1. rec.baselineQty # None /\ livePos.value[rec.symbol] > rec.baselineQty
    BY <1>2 DEF QuantityGrew
  <2>2. rec.symbol \in Symbols /\ rec.baselineAt # None /\ rec.baselineAt \in 0 .. trades
        /\ rec.baselineAt <= livePos.at
        /\ (rec.baselineAt = livePos.at => rec.baselineQty = livePos.value[rec.symbol])
    BY <2>1 DEF Sound
  <2>3. livePos.value[rec.symbol] \in Nat /\ rec.baselineQty \in Nat
    BY <1>1, <2>1, <2>2 DEF Recommendation
  <2>4. QED
    BY <1>1, <2>1, <2>2, <2>3
<1>3. CASE CashFell(rec, cash)
  <2>1. rec.baselineCash # NoReading /\ rec.baselineCash.value # cash
    <3>1. rec.baselineCash \in [value : Int, at : Int]
      BY DEF Recommendation
    <3>2. QED
      BY <1>1, <1>3, <3>1 DEF CashFell
  <2>2. rec.baselineAt # None /\ rec.baselineAt <= rec.baselineCash.at /\ rec.baselineCash.at <= trades
        /\ rec.baselineCash.at # trades
    BY <2>1 DEF Sound
  <2>3. rec.baselineAt \in Int /\ rec.baselineCash.at \in Int
    BY DEF Recommendation
  <2>4. QED
    BY <1>1, <2>2, <2>3
<1>4. QED
  BY <1>2, <1>3 DEF CheckOne

LEMMA DetectStep == LedgerIInv /\ ReadCashAndDetect => LedgerIInv'
<1> SUFFICES ASSUME LedgerIInv, ReadCashAndDetect PROVE LedgerIInv'
  OBVIOUS
<1> USE DEF LedgerIInv
<1>1. UNCHANGED <<day, accountVars, recs, lastRun, runs, today, livePos, pivot>>
      /\ phase = "positions" /\ phase' = "asking" /\ liveCash' = [value |-> cash, at |-> trades]
      /\ draft' = DetectActedOn(draft, livePos.value, cash, trades)
  BY DEF ReadCashAndDetect
<1>2. trades \in 0 .. MaxTrades /\ cash \in Int /\ None = -1
  BY DEF Types, TypeOK, None
<1>3. draft \in Seq(Recommendation) /\ DOMAIN draft = 1 .. Len(draft) /\ Len(draft) \in Nat
  BY DEF Types, TypeOK
<1>4. livePos.at # None /\ livePos.value \in Holdings /\ livePos.at <= trades
  BY <1>1 DEF Readings
<1>5. ASSUME NEW i \in DOMAIN draft
      PROVE  \/ draft'[i] = draft[i]
             \/ /\ draft[i].status = "active" /\ CheckOne(draft[i], livePos.value, cash)
                /\ draft'[i] = [draft[i] EXCEPT !.status = "acted_on", !.actedAt = trades]
  BY <1>1 DEF DetectActedOn
<1>6. ASSUME NEW i \in DOMAIN draft
      PROVE  /\ draft'[i] \in Recommendation /\ Sound(draft[i])'
             /\ draft[i].status # "active" => draft'[i] = draft[i]
             /\ draft'[i].status = "active" => draft'[i] = draft[i]
             /\ draft'[i].supersededBy = draft[i].supersededBy
             /\ draft'[i].due = draft[i].due /\ draft'[i].digestDate = draft[i].digestDate
  <2>1. draft[i] \in Recommendation /\ Sound(draft[i])
    BY <1>3 DEF AllSound
  <2>2. CASE draft'[i] = draft[i]
    BY <1>1, <2>1, <2>2 DEF Sound, accountVars
  <2>3. CASE draft[i].status = "active" /\ CheckOne(draft[i], livePos.value, cash)
             /\ draft'[i] = [draft[i] EXCEPT !.status = "acted_on", !.actedAt = trades]
    <3>1. draft[i].baselineAt # None /\ trades > draft[i].baselineAt
      BY <1>4, <2>1, <2>3, ActedOnLater
    <3>2. draft'[i] \in Recommendation
      <4>1. trades \in Int
        BY <1>2
      <4>2. QED
        BY <2>1, <2>3, <4>1 DEF Recommendation, Statuses
    <3>3. /\ draft'[i].status = "acted_on" /\ draft'[i].actedAt = trades
          /\ draft'[i].baselineAt = draft[i].baselineAt /\ draft'[i].baselineQty = draft[i].baselineQty
          /\ draft'[i].baselineCash = draft[i].baselineCash /\ draft'[i].symbol = draft[i].symbol
          /\ draft'[i].supersededBy = draft[i].supersededBy
          /\ draft'[i].due = draft[i].due /\ draft'[i].digestDate = draft[i].digestDate
      BY <2>1, <2>3 DEF Recommendation
    <3>4. Sound(draft[i])'
      BY <1>1, <2>1, <3>1, <3>3 DEF Sound, accountVars
    <3>5. QED
      BY <2>3, <3>2, <3>3, <3>4
  <2>4. QED
    BY <1>5, <2>2, <2>3
<1>7. draft' \in Seq(Recommendation) /\ Len(draft') = Len(draft) /\ DOMAIN draft' = DOMAIN draft
  <2>1. draft' = [i \in 1 .. Len(draft) |-> draft'[i]]
    BY <1>1, <1>3 DEF DetectActedOn
  <2>2. \A i \in 1 .. Len(draft) : draft'[i] \in Recommendation
    BY <1>3, <1>6
  <2>3. draft' \in [1 .. Len(draft) -> Recommendation]
    BY <2>1, <2>2
  <2>4. QED
    BY <1>3, <2>3
<1>8. Types'
  BY <1>1, <1>2, <1>7 DEF Types, TypeOK, accountVars, Phases
<1>9. Readings'
  BY <1>1, <1>2, <1>4 DEF Readings, accountVars
<1>10. AllSound'
  <2>1. ASSUME NEW i \in DOMAIN recs PROVE Sound(recs[i])'
    BY <1>1 DEF AllSound, Sound, accountVars
  <2>2. QED
    BY <1>1, <1>6, <1>7, <2>1 DEF AllSound
<1>11. DraftFollows' /\ NothingOverdueStaysOpen'
  <2>1. DOMAIN recs = DOMAIN draft
    BY <1>1 DEF DraftFollows, Types, TypeOK
  <2>2. QED
    BY <1>1, <1>6, <1>7, <2>1 DEF DraftFollows, NothingOverdueStaysOpen
<1>12. QED
  BY <1>8, <1>9, <1>10, <1>11

-----------------------------------------------------------------------------

\* The transaction is gone, or was never there.
LEMMA AbortStep == LedgerIInv /\ Abort => LedgerIInv'
<1> SUFFICES ASSUME LedgerIInv, Abort PROVE LedgerIInv'
  OBVIOUS
<1> USE DEF LedgerIInv
<1>1. UNCHANGED <<day, accountVars, recs, lastRun, runs, pivot>> /\ EndRun
  BY DEF Abort
<1>2. NoReading.at = None /\ NoReading.value = None
  BY DEF NoReading
<1>3. Types'
  BY <1>1 DEF Types, TypeOK, accountVars, EndRun, Phases, NoReading, None, Days
<1>4. Readings'
  BY <1>1, <1>2 DEF Readings, EndRun
<1>5. AllSound'
  <2>1. ASSUME NEW i \in DOMAIN recs PROVE Sound(recs[i])'
    BY <1>1, <1>2 DEF AllSound, Sound, accountVars, EndRun
  <2>2. QED
    BY <1>1, <2>1 DEF AllSound, EndRun
<1>6. DraftFollows' /\ NothingOverdueStaysOpen'
  BY <1>1 DEF DraftFollows, NothingOverdueStaysOpen, EndRun
<1>7. QED
  BY <1>3, <1>4, <1>5, <1>6

\* The new recommendation has the run's readings as its baseline.
LEMMA NewIsSound ==
    ASSUME LedgerIInv, NEW a \in Answers, a.supersedes <= today
    PROVE  LET new == NewRecommendation(a) IN
           /\ new \in Recommendation /\ Sound(new)
           /\ new.status = "active" /\ new.supersededBy = 0
           /\ new.due > today /\ new.digestDate = today
<1> USE DEF LedgerIInv
<1> DEFINE new == NewRecommendation(a)
<1>1. /\ a.verb \in {"BUY", "HOLD"} /\ a.symbol \in Symbols \cup {NoSymbol}
      /\ a.amount \in Amounts \cup {None} /\ a.window \in Windows
  BY DEF Answers
<1>2. today \in Nat /\ today \in Days /\ a.window \in Nat \ {0} /\ DueDate(a) \in Nat /\ DueDate(a) > today
  <2>1. today \in Nat /\ today \in Days
    BY DEF Types, TypeOK, Days
  <2>2. a.window \in Nat \ {0}
    BY <1>1
  <2>3. QED
    BY <2>1, <2>2 DEF DueDate
<1>3. BaselineQty(a) \in Nat \cup {None}
  BY <1>1 DEF BaselineQty, Readings, Holdings
<1>4. livePos.at \in Int /\ liveCash \in [value : Int, at : Int] /\ None \in Int
  BY DEF Types, None
<1>5. /\ new.digestDate = today /\ new.symbol = a.symbol /\ new.due = DueDate(a)
      /\ new.status = "active" /\ new.supersededBy = 0 /\ new.baselineQty = BaselineQty(a)
      /\ new.baselineCash = liveCash /\ new.baselineAt = livePos.at
  BY DEF NewRecommendation
<1>6. new \in Recommendation
  BY <1>1, <1>2, <1>3, <1>4 DEF NewRecommendation, Recommendation, Statuses
<1> HIDE DEF new
<1>7. Sound(new)
  <2>1. livePos.at = None \/ livePos.at \in 0 .. trades
    BY DEF Types, TypeOK, Readings, None
  <2>2. BaselineQty(a) # None =>
            livePos.at # None /\ a.symbol \in Symbols /\ BaselineQty(a) = livePos.value[a.symbol]
    BY <1>1 DEF BaselineQty
  <2>3. QED
    BY <1>4, <1>5, <2>1, <2>2 DEF Sound, Readings
<1>8. QED
  BY <1>2, <1>5, <1>6, <1>7 DEF new

\* What a commit leaves: the draft's rows, at most one of the open ones superseded,
\* and the new one.
LEMMA RecordedFacts ==
    ASSUME LedgerIInv, phase = "asking", NEW a \in Answers, a.supersedes <= today,
           recs' \in Recorded(draft, a)
    PROVE  /\ recs' \in Seq(Recommendation) /\ Len(recs') = Len(draft) + 1
           /\ DOMAIN recs' = 1 .. Len(draft) + 1
           /\ \A i \in DOMAIN recs' :
                LET all == Append(draft, NewRecommendation(a)) IN
                \/ recs'[i] = all[i]
                \/ /\ all[i].status = "active"
                   /\ recs'[i] = [all[i] EXCEPT !.status = "superseded", !.supersededBy = Len(draft) + 1]
<1> USE DEF LedgerIInv
<1> DEFINE new == NewRecommendation(a)
           all == Append(draft, new)
<1>1. new \in Recommendation
  BY NewIsSound
<1> HIDE DEF new
<1>2. /\ draft \in Seq(Recommendation) /\ Len(draft) \in Nat
      /\ all \in Seq(Recommendation) /\ Len(all) = Len(draft) + 1 /\ DOMAIN all = 1 .. Len(draft) + 1
  BY <1>1 DEF Types, TypeOK
<1>3. ASSUME recs' # all
      PROVE  \E i \in Matches(all, a) :
                recs' = [all EXCEPT ![i].status = "superseded", ![i].supersededBy = Len(all)]
  BY <1>3 DEF Recorded, new
<1> HIDE DEF all
<1>4. Matches(all, a) \subseteq {i \in DOMAIN all : all[i].status = "active"}
  BY DEF Matches, Candidates
<1>5. CASE recs' = all
  BY <1>2, <1>5 DEF all, new
<1>6. ASSUME NEW k \in DOMAIN all, all[k].status = "active",
             recs' = [all EXCEPT ![k].status = "superseded", ![k].supersededBy = Len(all)]
      PROVE  /\ recs' \in Seq(Recommendation) /\ Len(recs') = Len(all)
             /\ DOMAIN recs' = DOMAIN all
             /\ \A i \in DOMAIN recs' :
                \/ recs'[i] = all[i]
                \/ /\ all[i].status = "active"
                   /\ recs'[i] = [all[i] EXCEPT !.status = "superseded", !.supersededBy = Len(all)]
  <2> DEFINE r == [all[k] EXCEPT !.status = "superseded", !.supersededBy = Len(all)]
  <2>1. recs' = [all EXCEPT ![k] = r]
    <3>1. [[all EXCEPT ![k].status = "superseded"] EXCEPT ![k].supersededBy = Len(all)] = [all EXCEPT ![k] = r]
      BY <1>2, <1>6
    <3>2. QED
      BY <1>6, <3>1
  <2>2. r \in Recommendation
    <3>1. all[k] \in Recommendation /\ Len(all) \in Nat
      BY <1>2
    <3>2. QED
      BY <3>1 DEF Recommendation, Statuses
  <2> HIDE DEF r
  <2>3. recs' \in Seq(Recommendation) /\ Len(recs') = Len(all) /\ DOMAIN recs' = DOMAIN all
    BY <1>2, <2>1, <2>2
  <2>4. recs'[k] = r /\ \A i \in DOMAIN all \ {k} : recs'[i] = all[i]
    BY <1>2, <2>1
  <2>5. QED
    BY <1>6, <2>3, <2>4 DEF r
<1>7. QED
  <2>1. CASE recs' # all
    <3>1. PICK k \in DOMAIN all : all[k].status = "active"
            /\ recs' = [all EXCEPT ![k].status = "superseded", ![k].supersededBy = Len(all)]
      BY <1>3, <1>4, <2>1
    <3>2. QED
      BY <1>2, <1>6, <3>1 DEF all, new
  <2>2. QED
    BY <1>5, <2>1

LEMMA CommitStep ==
    ASSUME LedgerIInv, NEW a \in Answers, Commit(a) PROVE LedgerIInv'
<1> USE DEF LedgerIInv
<1>1. UNCHANGED <<day, accountVars, runs>> /\ phase = "asking" /\ a.supersedes <= today
      /\ recs' \in Recorded(draft, a) /\ lastRun' = today /\ EndRun
  BY DEF Commit
<1> DEFINE new == NewRecommendation(a)
           all == Append(draft, new)
<1>2. /\ new \in Recommendation /\ Sound(new)
      /\ new.status = "active" /\ new.supersededBy = 0 /\ new.due > today /\ new.digestDate = today
  BY <1>1, NewIsSound
<1>3. /\ recs' \in Seq(Recommendation) /\ Len(recs') = Len(draft) + 1
      /\ DOMAIN recs' = 1 .. Len(draft) + 1
      /\ \A i \in DOMAIN recs' :
            \/ recs'[i] = all[i]
            \/ /\ all[i].status = "active"
               /\ recs'[i] = [all[i] EXCEPT !.status = "superseded", !.supersededBy = Len(draft) + 1]
  BY <1>1, RecordedFacts
<1> HIDE DEF new
<1>4. /\ draft \in Seq(Recommendation) /\ Len(draft) \in Nat /\ Len(draft) = Len(recs)
      /\ DOMAIN draft = 1 .. Len(draft) /\ today \in Days
  BY <1>1 DEF Types, TypeOK, DraftFollows
<1> HIDE DEF all
<1>5. DOMAIN recs' = 1 .. Len(draft) + 1 /\ Len(recs') = Len(draft) + 1
  BY <1>3
<1>6. ASSUME NEW i \in DOMAIN recs'
      PROVE  /\ all[i] \in Recommendation /\ Sound(all[i])
             /\ all[i].status = "active" => all[i].due > today
             /\ all[i].supersededBy <= Len(recs) /\ all[i].due > all[i].digestDate
  <2>1. CASE i \in DOMAIN draft
    <3>1. all[i] = draft[i]
      BY <1>2, <1>4, <2>1 DEF all
    <3>2. draft[i] \in Recommendation
      BY <1>4, <2>1
    <3>3. QED
      BY <1>1, <2>1, <3>1, <3>2 DEF AllSound, DraftFollows
  <2>2. CASE i = Len(draft) + 1
    <3>1. all[i] = new
      BY <1>2, <1>4, <2>2 DEF all
    <3>2. QED
      BY <1>2, <1>4, <3>1
  <2>3. i \in DOMAIN draft \/ i = Len(draft) + 1
    BY <1>4, <1>5
  <2>4. QED
    BY <2>1, <2>2, <2>3
<1>7. ASSUME NEW i \in DOMAIN recs'
      PROVE  /\ Sound(recs[i])'
             /\ recs'[i].status = "active" => recs'[i].due > today
             /\ recs'[i].supersededBy <= Len(recs') /\ recs'[i].due > recs'[i].digestDate
  <2>1. all[i].supersededBy \in Nat /\ Len(recs') \in Nat /\ Len(recs') = Len(recs) + 1
    <3>1. all[i] \in Recommendation
      BY <1>6
    <3>2. QED
      BY <1>4, <1>5, <3>1 DEF Recommendation
  <2>2. NoReading.at = None /\ livePos' = NoReading /\ UNCHANGED <<trades, qty, cash>>
    BY <1>1 DEF NoReading, EndRun, accountVars
  <2>3. CASE recs'[i] = all[i]
    BY <1>4, <1>6, <2>1, <2>2, <2>3 DEF Sound
  <2>4. CASE recs'[i] = [all[i] EXCEPT !.status = "superseded", !.supersededBy = Len(draft) + 1]
    <3>1. /\ recs'[i].status = "superseded" /\ recs'[i].supersededBy = Len(draft) + 1
          /\ recs'[i].baselineAt = all[i].baselineAt /\ recs'[i].baselineQty = all[i].baselineQty
          /\ recs'[i].baselineCash = all[i].baselineCash /\ recs'[i].symbol = all[i].symbol
          /\ recs'[i].due = all[i].due /\ recs'[i].digestDate = all[i].digestDate
      BY <1>6, <2>4 DEF Recommendation
    <3>2. Sound(recs[i])'
      BY <1>6, <2>2, <3>1 DEF Sound
    <3>3. recs'[i].supersededBy <= Len(recs') /\ recs'[i].due > recs'[i].digestDate
      BY <1>4, <1>6, <1>5, <3>1
    <3>4. QED
      BY <3>1, <3>2, <3>3
  <2>5. QED
    BY <1>3, <2>3, <2>4
<1>8. Types'
  <2>1. lastRun' \in Days \cup {None} /\ today' \in Days /\ phase' \in Phases /\ draft' \in Seq(Recommendation)
    BY <1>1, <1>4 DEF EndRun, Phases, Days
  <2>2. livePos' \in [value : Holdings \cup {None}, at : 0 .. MaxTrades \cup {None}]
        /\ liveCash' \in [value : Int, at : 0 .. MaxTrades \cup {None}]
        /\ livePos'.at = None /\ liveCash'.at = None /\ liveCash'.value \in Int
    BY <1>1 DEF EndRun, NoReading, None
  <2>3. \A i \in DOMAIN recs' : recs'[i].supersededBy <= Len(recs') /\ recs'[i].due > recs'[i].digestDate
    BY <1>7
  <2>4. UNCHANGED <<day, qty, cash, trades, runs>>
    BY <1>1 DEF accountVars
  <2>5. QED
    BY <1>3, <2>1, <2>2, <2>3, <2>4 DEF Types, TypeOK
<1>9. Readings'
  BY <1>1 DEF Readings, EndRun, NoReading
<1>10. AllSound' /\ DraftFollows' /\ NothingOverdueStaysOpen'
  BY <1>1, <1>7 DEF AllSound, DraftFollows, NothingOverdueStaysOpen, EndRun
<1>11. QED
  BY <1>8, <1>9, <1>10

LEMMA LedgerNextIInv == LedgerIInv /\ [Next]_vars => LedgerIInv'
<1> SUFFICES ASSUME LedgerIInv, [Next]_vars PROVE LedgerIInv'
  OBVIOUS
<1>1. ASSUME NEW s \in Symbols, NEW lot \in Lots, Trade(s, lot) PROVE LedgerIInv'
  BY <1>1, TradeStep
<1>2. CASE NextDay
  BY <1>2, NextDayStep
<1>3. CASE Begin
  BY <1>3, BeginStep
<1>4. CASE ReadPositions
  BY <1>4, ReadPositionsStep
<1>5. CASE ReadCashAndDetect
  BY <1>5, DetectStep
<1>6. CASE SnapshotUnavailable
  BY <1>6, SnapshotUnavailableStep
<1>7. ASSUME NEW a \in Answers, Commit(a) PROVE LedgerIInv'
  BY <1>7, CommitStep
<1>8. CASE Abort
  BY <1>8, AbortStep
<1>9. CASE UNCHANGED vars
  BY <1>9 DEF vars, accountVars, runVars, LedgerIInv, Types, TypeOK, Readings, AllSound, Sound,
              DraftFollows, NothingOverdueStaysOpen
<1>10. QED
  BY <1>1, <1>2, <1>3, <1>4, <1>5, <1>6, <1>7, <1>8, <1>9 DEF Next

-----------------------------------------------------------------------------

\* The account, the recommendations and the run stay in their types.
THEOREM LedgerTypeCorrect == Spec => []TypeOK
<1>1. LedgerIInv => TypeOK
  BY DEF LedgerIInv, Types
<1>2. QED
  BY <1>1, LedgerInitIInv, LedgerNextIInv, PTL DEF Spec

\* What was acted on had a baseline, and moved after it.
THEOREM HoldingIsNoFill == Spec => []ActedOnAfterBaseline
<1>1. LedgerIInv => ActedOnAfterBaseline
  BY DEF LedgerIInv, AllSound, Sound, ActedOnAfterBaseline
<1>2. QED
  BY <1>1, LedgerInitIInv, LedgerNextIInv, PTL DEF Spec

\* A run leaves nothing open that was due.
THEOREM OverdueIsClosed == Spec => []NothingOverdueStaysOpen
<1>1. LedgerIInv => NothingOverdueStaysOpen
  BY DEF LedgerIInv
<1>2. QED
  BY <1>1, LedgerInitIInv, LedgerNextIInv, PTL DEF Spec

\* A resolution is final.
THEOREM ResolutionStays == Spec => ResolvedIsFinal
<1> DEFINE Final == \A i \in DOMAIN recs :
        /\ i \in DOMAIN recs'
        /\ recs[i].status # "active" => recs'[i] = recs[i]
<1>1. LedgerIInv /\ [Next]_vars => [Final]_vars
  <2> SUFFICES ASSUME LedgerIInv, Next, NEW i \in DOMAIN recs
               PROVE  i \in DOMAIN recs' /\ (recs[i].status # "active" => recs'[i] = recs[i])
    BY DEF vars
  <2>1. CASE recs' = recs
    BY <2>1
  <2>2. ASSUME NEW a \in Answers, Commit(a)
        PROVE  i \in DOMAIN recs' /\ (recs[i].status # "active" => recs'[i] = recs[i])
    <3> DEFINE all == Append(draft, NewRecommendation(a))
    <3>1. /\ DOMAIN recs' = 1 .. Len(draft) + 1
          /\ \A k \in DOMAIN recs' : recs'[k] = all[k] \/ all[k].status = "active"
      BY <2>2, RecordedFacts DEF Commit
    <3>2. /\ Len(draft) = Len(recs) /\ Len(draft) \in Nat /\ DOMAIN recs = 1 .. Len(recs)
          /\ recs[i].status # "active" => draft[i] = recs[i]
      BY <2>2 DEF Commit, LedgerIInv, DraftFollows, Types, TypeOK
    <3>3. all[i] = draft[i]
      <4>1. draft \in Seq(Recommendation) /\ i \in 1 .. Len(draft)
        BY <3>2 DEF LedgerIInv, Types, TypeOK
      <4>2. QED
        BY <4>1
    <3>4. QED
      BY <3>1, <3>2, <3>3
  <2>3. QED
    BY <2>1, <2>2 DEF Next, Trade, NextDay, Begin, ReadPositions, ReadCashAndDetect,
                      SnapshotUnavailable, Abort
<1>2. QED
  BY <1>1, LedgerInitIInv, LedgerNextIInv, PTL DEF Spec, ResolvedIsFinal

\* What a commit asked to supersede an earlier day does to the rows.
LEMMA CommitSupersedes ==
    ASSUME LedgerIInv, NEW a \in Answers, Commit(a), a.supersedes # today
    PROVE  LET superseded == {i \in DOMAIN recs' : recs'[i].supersededBy = Len(recs')}
           IN  /\ superseded \subseteq pivot'.open
               /\ pivot'.open # {} => superseded # {}
<1> DEFINE new  == NewRecommendation(a)
           all  == Append(draft, new)
           open == {i \in DOMAIN draft : draft[i].status = "active" /\ draft[i].digestDate = a.supersedes}
<1>1. /\ phase = "asking" /\ a.supersedes <= today
      /\ recs' \in Recorded(draft, a) /\ pivot'.open = open
  BY DEF Commit
<1>2. new \in Recommendation /\ new.digestDate = today /\ new.supersededBy = 0
  BY <1>1, NewIsSound
<1> HIDE DEF new
<1>3. /\ draft \in Seq(Recommendation) /\ Len(draft) \in Nat /\ DOMAIN draft = 1 .. Len(draft)
      /\ \A i \in DOMAIN draft : draft[i].supersededBy <= Len(draft) /\ draft[i].digestDate # None
  <2>1. draft \in Seq(Recommendation)
    BY DEF LedgerIInv, Types, TypeOK
  <2>2. Len(draft) = Len(recs) /\ \A i \in DOMAIN draft : draft[i].supersededBy <= Len(recs)
    BY <1>1 DEF LedgerIInv, DraftFollows
  <2>3. \A i \in DOMAIN draft : draft[i] \in Recommendation
    BY <2>1
  <2>4. \A i \in DOMAIN draft : draft[i].digestDate # None
    BY <2>3 DEF Recommendation, Days, None
  <2>5. QED
    BY <2>1, <2>2, <2>4
<1>4. /\ all \in Seq(Recommendation) /\ Len(all) = Len(draft) + 1 /\ DOMAIN all = 1 .. Len(draft) + 1
      /\ all[Len(draft) + 1] = new /\ \A i \in DOMAIN draft : all[i] = draft[i]
  BY <1>2, <1>3
<1>5. \A i \in DOMAIN all : i \in DOMAIN draft \/ i = Len(draft) + 1
  BY <1>3, <1>4
<1>6. Recorded(draft, a) =
        IF a.supersedes = None \/ Matches(all, a) = {} THEN {all}
        ELSE {[all EXCEPT ![i].status = "superseded", ![i].supersededBy = Len(all)] : i \in Matches(all, a)}
  BY DEF Recorded, new
<1> HIDE DEF all
<1>7. Candidates(all, a.supersedes) = open
  BY <1>2, <1>3, <1>4, <1>5 DEF Candidates
<1>8. Matches(all, a) \subseteq open /\ (open # {} => Matches(all, a) # {})
  BY <1>7 DEF Matches
<1>9. \A i \in DOMAIN all : all[i].supersededBy # Len(all) /\ all[i] \in Recommendation
  <2>1. \A i \in DOMAIN draft : draft[i].supersededBy \in Nat
    <3>1. \A i \in DOMAIN draft : draft[i] \in Recommendation
      BY <1>3
    <3>2. QED
      BY <3>1 DEF Recommendation
  <2>2. QED
    BY <1>2, <1>3, <1>4, <1>5, <2>1
<1>10. CASE a.supersedes = None \/ Matches(all, a) = {}
  <2>1. recs' = all
    BY <1>1, <1>6, <1>10
  <2>2. open = {}
    BY <1>3, <1>8, <1>10
  <2>3. QED
    BY <1>1, <1>9, <2>1, <2>2
<1>11. CASE ~(a.supersedes = None \/ Matches(all, a) = {})
  <2>1. PICK k \in Matches(all, a) :
          recs' = [all EXCEPT ![k].status = "superseded", ![k].supersededBy = Len(all)]
    BY <1>1, <1>6, <1>11
  <2>2. k \in open /\ k \in DOMAIN all
    BY <1>3, <1>4, <1>8, <2>1
  <2>3. all[k] \in Recommendation
    BY <1>9, <2>2
  <2>4. DOMAIN recs' = DOMAIN all /\ Len(recs') = Len(all)
    BY <1>4, <2>1
  <2>5. /\ recs'[k].supersededBy = Len(all)
        /\ \A i \in DOMAIN all \ {k} : recs'[i] = all[i]
    BY <2>1, <2>2, <2>3 DEF Recommendation
  <2>6. {i \in DOMAIN recs' : recs'[i].supersededBy = Len(recs')} = {k}
    BY <1>9, <2>2, <2>4, <2>5
  <2>7. QED
    BY <1>1, <2>2, <2>6
<1>12. QED
  BY <1>10, <1>11

\* A pivot away from an earlier day closes exactly what it may: one row of that day,
\* the newly appended one never being taken for it.
THEOREM PivotClosesOne == Spec => PivotClosesThatDay
<1> DEFINE superseded == {i \in DOMAIN recs' : recs'[i].supersededBy = Len(recs')}
           Closes == recs' # recs =>
                        (pivot'.asked # lastRun' =>
                            /\ superseded \subseteq pivot'.open
                            /\ pivot'.open # {} => superseded # {})
<1>1. LedgerIInv /\ [Next]_vars => [Closes]_vars
  <2> SUFFICES ASSUME LedgerIInv, Next, recs' # recs, pivot'.asked # lastRun'
               PROVE  superseded \subseteq pivot'.open /\ (pivot'.open # {} => superseded # {})
    BY DEF vars
  <2>1. PICK a \in Answers : Commit(a)
    BY DEF Next, Trade, NextDay, Begin, ReadPositions, ReadCashAndDetect,
           SnapshotUnavailable, Abort
  <2>2. a.supersedes # today
    BY <2>1 DEF Commit
  <2>3. QED
    BY <2>1, <2>2, CommitSupersedes
<1>2. QED
  BY <1>1, LedgerInitIInv, LedgerNextIInv, PTL DEF Spec, PivotClosesThatDay

-----------------------------------------------------------------------------
(***************************************************************************)
(* The advisor council.                                                    *)
(***************************************************************************)

HIDE LedgerAssumption
USE CouncilAssumption

\* A run that waits for an answer or has one has a persona and a snapshot for it.
Working ==
    \A p \in Pods :
        /\ at[p] \in {"lookup", "asking", "opinion", "abstention"} => snap[p] \in Snapshot
        /\ at[p] \in {"asking", "opinion", "abstention"} => personasLeft[p] # {}
        /\ at[p] \in {"idle", "snapshot"} => personasLeft[p] = {}

\* What is still to be stored of a run's snapshots is what is still to go.
CoveredSoFar ==
    \A p \in Pods : at[p] # "idle" =>
        \A s \in built[p], a \in Persona :
            \/ Stored([persona |-> a, snap |-> s])
            \/ s = snap[p] /\ a \in personasLeft[p]

\* Without an overlap one run is open, and an answer that was paid for is stored,
\* lost, or in that run's hand.
Accounted ==
    ~overlap =>
        /\ \A p, q \in Pods : at[p] # "idle" /\ at[q] # "idle" => p = q
        /\ \A k \in ViewKey : calls[k] > 0 =>
            Stored(k) \/ k \in wasted \/ \E p \in Pods : k \in InHand(p)

\* The inductive invariant.
CouncilIInv == CouncilTypeOK /\ Working /\ CoveredSoFar /\ Accounted /\ NeverPaidTwice

-----------------------------------------------------------------------------

\* A set of naturals has a first element.
LEMMA FirstOfSet ==
    ASSUME NEW S \in SUBSET Nat, S # {}
    PROVE  First(S) \in S /\ \A m \in S : First(S) <= m
BY LeastNatural DEF First, Least

LEMMA PersonaInHand ==
    ASSUME CouncilTypeOK, NEW p \in Pods, personasLeft[p] # {}
    PROVE  First(personasLeft[p]) \in personasLeft[p] /\ First(personasLeft[p]) \in Persona
<1>1. personasLeft[p] \subseteq Persona /\ Persona \subseteq Nat
  BY DEF CouncilTypeOK, Persona
<1>2. QED
  BY <1>1, FirstOfSet

LEMMA KeyInHand ==
    ASSUME CouncilTypeOK, NEW p \in Pods, personasLeft[p] # {}, snap[p] \in Snapshot
    PROVE  Key(p) \in ViewKey
BY PersonaInHand DEF Key, ViewKey

\* A row that is stored stays, and one more is stored by appending it.
LEMMA Appended ==
    ASSUME CouncilTypeOK, NEW v \in ViewRow, views' = Append(views, v)
    PROVE  /\ views' \in Seq(ViewRow)
           /\ \A k : Stored(k)' <=> Stored(k) \/ k = v.key
<1>1. views \in Seq(ViewRow)
  BY DEF CouncilTypeOK
<1>2. views' \in Seq(ViewRow) /\ Len(views') = Len(views) + 1
  BY <1>1
<1>3. DOMAIN views = 1 .. Len(views) /\ DOMAIN views' = 1 .. Len(views) + 1 /\ Len(views) \in Nat
  BY <1>1, <1>2
<1>4. \A i \in DOMAIN views : views'[i] = views[i]
  BY <1>1, <1>3
<1>5. views'[Len(views) + 1] = v
  BY <1>1, <1>3
<1>6. ASSUME NEW k PROVE Stored(k)' <=> Stored(k) \/ k = v.key
  BY <1>3, <1>4, <1>5 DEF Stored
<1>7. QED
  BY <1>2, <1>6

-----------------------------------------------------------------------------

LEMMA CouncilInitIInv == CouncilInit => CouncilIInv
<1> SUFFICES ASSUME CouncilInit PROVE CouncilIInv
  OBVIOUS
<1>1. CouncilTypeOK
  <2>1. overlap \in BOOLEAN
    BY Zenon DEF CouncilInit
  <2>2. views \in Seq(ViewRow)
    BY DEF CouncilInit
  <2>3. QED
    BY <2>1, <2>2 DEF CouncilInit, CouncilTypeOK, Steps
<1>2. Working /\ CoveredSoFar
  BY DEF CouncilInit, Working, CoveredSoFar
<1>3. Accounted /\ NeverPaidTwice
  BY DEF CouncilInit, Accounted, NeverPaidTwice
<1>4. QED
  BY <1>1, <1>2, <1>3 DEF CouncilIInv

\* What neither the runs nor the table see.
LEMMA WorldStep == CouncilIInv /\ (NewFiling \/ Midnight) => CouncilIInv'
<1> SUFFICES ASSUME CouncilIInv, NewFiling \/ Midnight PROVE CouncilIInv'
  OBVIOUS
<1> USE DEF CouncilIInv
<1>1. UNCHANGED <<views, calls, podVars, losses, wasted, overlap>>
  BY DEF NewFiling, Midnight
<1>2. date' \in 0 .. LastDay /\ filed' \in [Ticker -> 0 .. MaxFilings]
  <2>1. date \in 0 .. LastDay /\ filed \in [Ticker -> 0 .. MaxFilings]
    BY DEF CouncilTypeOK
  <2>2. CASE NewFiling
    BY <2>1, <2>2 DEF NewFiling
  <2>3. CASE Midnight
    BY <2>1, <2>3 DEF Midnight
  <2> QED
    BY <2>2, <2>3
<1>3. CouncilTypeOK'
  BY <1>1, <1>2 DEF podVars, CouncilTypeOK
<1>4. Working' /\ CoveredSoFar' /\ NeverPaidTwice'
  BY <1>1 DEF podVars, Working, CoveredSoFar, Stored, NeverPaidTwice
<1>5. Accounted'
  BY <1>1 DEF podVars, Accounted, Stored, InHand, Key
<1>6. QED
  BY <1>3, <1>4, <1>5

LEMMA StartRunStep ==
    ASSUME CouncilIInv, NEW p \in Pods, StartRun(p) PROVE CouncilIInv'
<1> USE DEF CouncilIInv
<1>1. UNCHANGED <<date, filed, views, calls, personasLeft, snap, losses, wasted>>
  BY DEF StartRun
<1>2. CouncilTypeOK'
  <2>1. overlap' \in BOOLEAN
    BY Zenon DEF StartRun
  <2>2. at' \in [Pods -> Steps] /\ asOf' \in [Pods -> 0 .. LastDay]
    BY DEF StartRun, CouncilTypeOK, Steps
  <2>3. tickersLeft' \in [Pods -> SUBSET Ticker] /\ built' \in [Pods -> SUBSET Snapshot]
    BY DEF StartRun, CouncilTypeOK
  <2>4. QED
    BY <1>1, <2>1, <2>2, <2>3 DEF CouncilTypeOK
<1>3. Working'
  BY <1>1 DEF StartRun, Working, CouncilTypeOK
<1>4. CoveredSoFar'
  BY <1>1 DEF StartRun, CoveredSoFar, CouncilTypeOK, Stored
<1>5. Accounted'
  <2> SUFFICES ASSUME ~overlap' PROVE Accounted'
    BY DEF Accounted
  <2>1. ~overlap /\ \A q \in Pods \ {p} : at[q] = "idle"
    BY Zenon DEF StartRun
  <2>2. \A q \in Pods : at'[q] # "idle" => q = p
    BY <2>1 DEF StartRun, CouncilTypeOK
  <2>3. \A q \in Pods : InHand(q) = {}
    BY <2>1 DEF StartRun, InHand
  <2>4. \A k \in ViewKey : calls'[k] > 0 => Stored(k)' \/ k \in wasted'
    BY <1>1, <2>1, <2>3 DEF Accounted, Stored
  <2>5. QED
    BY <2>2, <2>4 DEF Accounted
<1>6. NeverPaidTwice'
  BY <1>1 DEF StartRun, NeverPaidTwice
<1>7. QED
  BY <1>2, <1>3, <1>4, <1>5, <1>6

\* A run goes on to the next ticker's snapshot, or past a ticker.
LEMMA TickerStep ==
    ASSUME CouncilIInv, NEW p \in Pods, BuildSnapshot(p) \/ SkipTicker(p) \/ NextTicker(p)
    PROVE  CouncilIInv'
<1> USE DEF CouncilIInv
<1>1. UNCHANGED <<date, filed, views, calls, asOf, losses, wasted, overlap>>
  BY DEF BuildSnapshot, SkipTicker, NextTicker
<1>2. \A q \in Pods \ {p} : at'[q] = at[q] /\ personasLeft'[q] = personasLeft[q]
                            /\ snap'[q] = snap[q] /\ built'[q] = built[q]
  BY DEF BuildSnapshot, SkipTicker, NextTicker, CouncilTypeOK
<1>3. CASE BuildSnapshot(p)
  <2> DEFINE t == First(tickersLeft[p])
             s == [ticker |-> t, asOf |-> asOf[p], filings |-> filed[t]]
  <2>1. t \in Ticker
    <3>1. tickersLeft[p] \subseteq Nat /\ tickersLeft[p] \subseteq Ticker
      BY DEF CouncilTypeOK, Ticker
    <3>2. QED
      BY <1>3, <3>1, FirstOfSet DEF BuildSnapshot
  <2>2. s \in Snapshot
    BY <2>1 DEF CouncilTypeOK, Snapshot
  <2> HIDE DEF s
  <2>3. at[p] = "snapshot" /\ snap' = [snap EXCEPT ![p] = s]
        /\ built' = [built EXCEPT ![p] = @ \cup {s}]
        /\ personasLeft' = [personasLeft EXCEPT ![p] = Persona]
        /\ at' = [at EXCEPT ![p] = "lookup"] /\ tickersLeft' = tickersLeft
    BY <1>3 DEF BuildSnapshot, s
  <2>4. CouncilTypeOK'
    BY <1>1, <2>2, <2>3 DEF CouncilTypeOK, Steps
  <2>5. Working'
    BY <2>2, <2>3 DEF Working, CouncilTypeOK
  <2>6. CoveredSoFar'
    BY <1>1, <2>3 DEF CoveredSoFar, Working, CouncilTypeOK, Stored
  <2>7. Accounted'
    BY <1>1, <2>3 DEF Accounted, CouncilTypeOK, Stored, InHand, Key
  <2>8. QED
    BY <1>1, <2>4, <2>5, <2>6, <2>7 DEF NeverPaidTwice
<1>4. CASE SkipTicker(p) \/ NextTicker(p)
  <2>1. at' = [at EXCEPT ![p] = "snapshot"] /\ personasLeft[p] = {} /\ at[p] # "idle"
        /\ UNCHANGED <<personasLeft, snap, built>>
    BY <1>4 DEF SkipTicker, NextTicker, Working, CouncilTypeOK
  <2>2. tickersLeft' \in [Pods -> SUBSET Ticker]
    BY <1>4 DEF SkipTicker, NextTicker, CouncilTypeOK
  <2>3. CouncilTypeOK'
    BY <1>1, <2>1, <2>2 DEF CouncilTypeOK, Steps
  <2>4. Working' /\ CoveredSoFar'
    BY <1>1, <2>1 DEF Working, CoveredSoFar, CouncilTypeOK, Stored
  <2>5. Accounted'
    BY <1>1, <1>4, <2>1 DEF Accounted, CouncilTypeOK, Stored, InHand, Key, SkipTicker, NextTicker
  <2>6. QED
    BY <1>1, <2>3, <2>4, <2>5 DEF NeverPaidTwice
<1>5. QED
  BY <1>3, <1>4

\* A key that is stored is not asked for.
LEMMA CacheHitStep ==
    ASSUME CouncilIInv, NEW p \in Pods, CacheHit(p) PROVE CouncilIInv'
<1> USE DEF CouncilIInv
<1> DEFINE a == First(personasLeft[p])
<1>1. UNCHANGED <<date, filed, views, calls, asOf, tickersLeft, snap, built, losses, wasted, overlap>>
      /\ at[p] = "lookup" /\ personasLeft' = [personasLeft EXCEPT ![p] = @ \ {a}]
      /\ at' = [at EXCEPT ![p] = "lookup"] /\ Stored([persona |-> a, snap |-> snap[p]])
  BY DEF CacheHit, NextPersona, CachedViewExists, Key
<1> HIDE DEF a
<1>2. at' = at
  BY <1>1 DEF CouncilTypeOK
<1>3. CouncilTypeOK'
  BY <1>1, <1>2 DEF CouncilTypeOK
<1>4. Working'
  BY <1>1, <1>2 DEF Working, CouncilTypeOK
<1>5. CoveredSoFar'
  BY <1>1, <1>2 DEF CoveredSoFar, CouncilTypeOK, Stored
<1>6. Accounted'
  BY <1>1, <1>2 DEF Accounted, CouncilTypeOK, Stored, InHand, Key
<1>7. QED
  BY <1>1, <1>3, <1>4, <1>5, <1>6 DEF NeverPaidTwice

LEMMA AskStep ==
    ASSUME CouncilIInv, NEW p \in Pods, Ask(p) PROVE CouncilIInv'
<1> USE DEF CouncilIInv
<1>1. UNCHANGED <<date, filed, views, asOf, tickersLeft, personasLeft, snap, built, losses, wasted,
                  overlap>>
  BY DEF Ask
<1>2. Key(p) \in ViewKey /\ Key(p)' = Key(p)
  BY <1>1, KeyInHand DEF Ask, Working, Key
<1>3. calls' = [calls EXCEPT ![Key(p)] = calls[Key(p)] + 1] /\ at' = [at EXCEPT ![p] = "asking"]
      /\ at[p] = "lookup" /\ ~Stored(Key(p)) /\ personasLeft[p] # {}
  BY DEF Ask, CachedViewExists
<1>4. CouncilTypeOK'
  BY <1>1, <1>2, <1>3 DEF CouncilTypeOK, Steps
<1>5. Working' /\ CoveredSoFar'
  BY <1>1, <1>3 DEF Working, CoveredSoFar, CouncilTypeOK, Stored
<1>6. ~overlap => \A q \in Pods : InHand(q) = {}
  BY <1>3 DEF Accounted, InHand
<1>7. NeverPaidTwice'
  <2> SUFFICES ASSUME NEW k \in ViewKey, calls'[k] > 1, ~overlap', k \notin wasted' PROVE FALSE
    BY DEF NeverPaidTwice
  <2>1. k = Key(p) /\ calls[k] > 0
    BY <1>1, <1>2, <1>3 DEF CouncilTypeOK, NeverPaidTwice
  <2>2. QED
    BY <1>1, <1>3, <1>6, <2>1 DEF Accounted
<1>8. Accounted'
  <2> SUFFICES ASSUME ~overlap' PROVE Accounted'
    BY DEF Accounted
  <2>2. \A q, w \in Pods : at'[q] # "idle" /\ at'[w] # "idle" => q = w
    BY <1>1, <1>3 DEF Accounted, CouncilTypeOK
  <2>3. InHand(p)' = {Key(p)}
    BY <1>2, <1>3 DEF InHand, CouncilTypeOK
  <2>4. ASSUME NEW k \in ViewKey, calls'[k] > 0
        PROVE  Stored(k)' \/ k \in wasted' \/ \E q \in Pods : k \in InHand(q)'
    BY <1>1, <1>2, <1>3, <1>6, <2>3, <2>4 DEF Accounted, CouncilTypeOK, Stored
  <2>5. QED
    BY <2>2, <2>4 DEF Accounted
<1>9. QED
  BY <1>4, <1>5, <1>7, <1>8

LEMMA AnswerStep ==
    ASSUME CouncilIInv, NEW p \in Pods, Answer(p) PROVE CouncilIInv'
<1> USE DEF CouncilIInv
<1>1. UNCHANGED <<date, filed, views, calls, asOf, tickersLeft, personasLeft, snap, built, losses,
                  wasted, overlap>>
  BY DEF Answer
<1>2. at[p] = "asking" /\ (at' = [at EXCEPT ![p] = "opinion"] \/ at' = [at EXCEPT ![p] = "abstention"])
  BY DEF Answer
<1>3. CouncilTypeOK'
  BY <1>1, <1>2 DEF CouncilTypeOK, Steps
<1> DEFINE Held == {"asking", "opinion", "abstention"}
<1>4. \A q \in Pods : (at'[q] \in Held <=> at[q] \in Held) /\ (at'[q] = at[q] \/ at'[q] \in Held)
  BY <1>2 DEF CouncilTypeOK
<1>5. Working' /\ CoveredSoFar'
  <2>1. Working'
    BY <1>1, <1>4 DEF Working
  <2>2. \A k : Stored(k)' <=> Stored(k)
    BY <1>1 DEF Stored
  <2>3. \A q \in Pods : at'[q] # "idle" => at[q] # "idle"
    BY <1>4
  <2>4. CoveredSoFar'
    BY <1>1, <2>2, <2>3 DEF CoveredSoFar
  <2>5. QED
    BY <2>1, <2>4
<1>6. Accounted'
  <2>1. \A q \in Pods : InHand(q)' = InHand(q)
    BY <1>1, <1>4 DEF InHand, Key
  <2>2. \A q \in Pods : at'[q] # "idle" => at[q] # "idle"
    BY <1>4
  <2>3. \A k : Stored(k)' <=> Stored(k)
    BY <1>1 DEF Stored
  <2>4. QED
    BY <1>1, <2>1, <2>2, <2>3 DEF Accounted
<1>7. QED
  BY <1>1, <1>3, <1>5, <1>6 DEF NeverPaidTwice

\* The row takes the place of the answer in hand.
LEMMA PersistViewStep ==
    ASSUME CouncilIInv, NEW p \in Pods, PersistView(p) PROVE CouncilIInv'
<1> USE DEF CouncilIInv
<1> DEFINE a == First(personasLeft[p])
           v == [key |-> Key(p), abstained |-> at[p] = "abstention"]
<1>1. UNCHANGED <<date, filed, calls, asOf, tickersLeft, snap, built, losses, wasted, overlap>>
      /\ at[p] \in {"opinion", "abstention"} /\ personasLeft' = [personasLeft EXCEPT ![p] = @ \ {a}]
      /\ at' = [at EXCEPT ![p] = "lookup"] /\ views' = Append(views, v)
  BY DEF PersistView, NextPersona
<1>2. Key(p) \in ViewKey
  BY <1>1, KeyInHand DEF Working
<1>3. v \in ViewRow /\ v.key = Key(p)
  <2>1. (at[p] = "abstention") \in BOOLEAN
    BY Zenon
  <2>2. QED
    BY <1>2, <2>1 DEF ViewRow
<1>4. Key(p) = [persona |-> a, snap |-> snap[p]]
  BY DEF Key
<1> HIDE DEF a, v
<1>5. views' \in Seq(ViewRow) /\ \A k : Stored(k)' <=> Stored(k) \/ k = Key(p)
  BY <1>1, <1>3, Appended
<1>6. CouncilTypeOK'
  BY <1>1, <1>5 DEF CouncilTypeOK, Steps
<1>7. Working'
  BY <1>1 DEF Working, CouncilTypeOK
<1>8. CoveredSoFar'
  BY <1>1, <1>4, <1>5 DEF CoveredSoFar, CouncilTypeOK
<1>9. \A q \in Pods \ {p} : InHand(q)' = InHand(q)
  BY <1>1 DEF InHand, Key, CouncilTypeOK
<1>10. InHand(p) = {Key(p)}
  BY <1>1 DEF InHand
<1>11. Accounted'
  <2> SUFFICES ASSUME ~overlap' PROVE Accounted'
    BY DEF Accounted
  <2>1. \A q \in Pods : at'[q] # "idle" => at[q] # "idle"
    BY <1>1 DEF CouncilTypeOK
  <2>2. \A q, w \in Pods : at'[q] # "idle" /\ at'[w] # "idle" => q = w
    BY <1>1, <2>1 DEF Accounted
  <2>3. ASSUME NEW k \in ViewKey, calls'[k] > 0
        PROVE  Stored(k)' \/ k \in wasted' \/ \E q \in Pods : k \in InHand(q)'
    <3>1. Stored(k) \/ k \in wasted \/ \E q \in Pods : k \in InHand(q)
      BY <1>1, <2>3 DEF Accounted
    <3>2. QED
      BY <1>1, <1>5, <1>9, <1>10, <3>1
  <2>4. QED
    BY <2>2, <2>3 DEF Accounted
<1>12. QED
  BY <1>1, <1>6, <1>7, <1>8, <1>11 DEF NeverPaidTwice

\* The run ends: what it had paid for is stored or counted as lost.
LEMMA EndStep ==
    ASSUME CouncilIInv, NEW p \in Pods, Finish(p) \/ UniqueViolation(p) \/ RunDies(p)
    PROVE  CouncilIInv'
<1> USE DEF CouncilIInv
<1>1. UNCHANGED <<date, filed, views, calls, overlap>> /\ EndPod(p) /\ losses' \in 0 .. MaxLosses
  BY DEF Finish, UniqueViolation, RunDies, CouncilTypeOK
<1>2. wasted' = wasted \cup InHand(p)
  BY DEF Finish, UniqueViolation, RunDies, InHand
<1>3. InHand(p) \subseteq ViewKey
  BY KeyInHand DEF InHand, Working
<1>4. CouncilTypeOK'
  BY <1>1, <1>2, <1>3 DEF CouncilTypeOK, EndPod, Steps
<1>5. Working' /\ CoveredSoFar'
  BY <1>1 DEF Working, CoveredSoFar, CouncilTypeOK, Stored, EndPod
<1>6. \A q \in Pods \ {p} : InHand(q)' = InHand(q)
  BY <1>1 DEF InHand, Key, CouncilTypeOK, EndPod
<1>7. Accounted'
  <2>1. \A q \in Pods : at'[q] # "idle" => at[q] # "idle"
    BY <1>1 DEF EndPod, CouncilTypeOK
  <2>2. \A k : Stored(k)' <=> Stored(k)
    BY <1>1 DEF Stored
  <2>3. QED
    BY <1>1, <1>2, <1>6, <2>1, <2>2 DEF Accounted
<1>8. QED
  BY <1>1, <1>2, <1>4, <1>5, <1>7 DEF NeverPaidTwice

LEMMA CouncilNextIInv == CouncilIInv /\ [CouncilNext]_councilVars => CouncilIInv'
<1> SUFFICES ASSUME CouncilIInv, [CouncilNext]_councilVars PROVE CouncilIInv'
  OBVIOUS
<1>1. CASE NewFiling \/ Midnight
  BY <1>1, WorldStep
<1>2. ASSUME NEW p \in Pods, StartRun(p) PROVE CouncilIInv'
  BY <1>2, StartRunStep
<1>3. ASSUME NEW p \in Pods, BuildSnapshot(p) \/ SkipTicker(p) \/ NextTicker(p) PROVE CouncilIInv'
  BY <1>3, TickerStep
<1>4. ASSUME NEW p \in Pods, CacheHit(p) PROVE CouncilIInv'
  BY <1>4, CacheHitStep
<1>5. ASSUME NEW p \in Pods, Ask(p) PROVE CouncilIInv'
  BY <1>5, AskStep
<1>6. ASSUME NEW p \in Pods, Answer(p) PROVE CouncilIInv'
  BY <1>6, AnswerStep
<1>7. ASSUME NEW p \in Pods, PersistView(p) PROVE CouncilIInv'
  BY <1>7, PersistViewStep
<1>8. ASSUME NEW p \in Pods, Finish(p) \/ UniqueViolation(p) \/ RunDies(p) PROVE CouncilIInv'
  BY <1>8, EndStep
<1>9. CASE UNCHANGED councilVars
  BY <1>9 DEF councilVars, podVars, CouncilIInv, CouncilTypeOK, Working, CoveredSoFar, Stored,
              Accounted, InHand, Key, NeverPaidTwice
<1>10. QED
  BY <1>1, <1>2, <1>3, <1>4, <1>5, <1>6, <1>7, <1>8, <1>9 DEF CouncilNext

-----------------------------------------------------------------------------

\* The council's variables stay in their types.
THEOREM CouncilTypeCorrect == CouncilSpec => []CouncilTypeOK
<1>1. CouncilIInv => CouncilTypeOK
  BY DEF CouncilIInv
<1>2. QED
  BY <1>1, CouncilInitIInv, CouncilNextIInv, PTL DEF CouncilSpec

\* The model is paid twice for a key only after a loss or an overlap.
THEOREM OneAnswerIsPaidFor == CouncilSpec => []NeverPaidTwice
<1>1. CouncilIInv => NeverPaidTwice
  BY DEF CouncilIInv
<1>2. QED
  BY <1>1, CouncilInitIInv, CouncilNextIInv, PTL DEF CouncilSpec

\* A run that ends by itself has a stored view of every persona on every snapshot.
THEOREM FinishedRunsCover == CouncilSpec => FinishedRunCovers
<1> DEFINE Covers == \A p \in Pods :
        (at[p] = "snapshot" /\ tickersLeft[p] = {} /\ at'[p] = "idle" /\ losses' = losses) =>
            \A s \in built[p], a \in Persona : Stored([persona |-> a, snap |-> s])
<1>1. CouncilIInv => [Covers]_councilVars
  BY DEF CouncilIInv, CoveredSoFar, Working
<1>2. QED
  BY <1>1, CouncilInitIInv, CouncilNextIInv, PTL DEF CouncilSpec, FinishedRunCovers

-----------------------------------------------------------------------------
(***************************************************************************)
(* Orders.                                                                 *)
(***************************************************************************)

HIDE CouncilAssumption
USE OrderAssumption

\* Types, and what they need: finitely many orders, attempts counted from one.
Typed ==
    /\ OrderTypeOK
    /\ IsFiniteSet(orders)
    /\ \A r \in Operators : pc[r] \in OrderSteps => attempt[r] >= 1
    /\ \A r \in Operators :
         pc[r] \in {"checking", "asking", "confirming", "placing"} =>
            seen[r].qty >= 1 /\ seen[r].ref \in Prices

\* Where an attempt stands: only a confirmed one submits, and only one that is
\* past placing has an order.
Staged ==
    \A r \in Operators :
        /\ stage[r] = "submit" => <<r, attempt[r]>> \in confirmed
        /\ pc[r] \in {"placing", "recording"} => stage[r] = "submit"
        /\ pc[r] = "confirming" => stage[r] = "preview"

OrdersTraced ==
    \A o \in orders :
        /\ <<o.run, o.attempt>> \in confirmed
        /\ o.attempt <= attempt[o.run]
        /\ o.attempt = attempt[o.run] =>
             stage[o.run] = "submit" /\ pc[o.run] \in {"recording", "ordered", "failed"}

\* The quantity a preview shows is the command's at the price it was quoted,
\* which is still the price unless that has moved.
AsQuoted(r, n) ==
    /\ n = ShareCount(cmd[r], seen[r].ref)
    /\ seen[r].ref = price \/ repriced[r]

QuotesKept ==
    \A r \in Operators :
        /\ stage[r] = "preview" /\ pc[r] \in {"checking", "asking"} => AsQuoted(r, seen[r].qty)
        /\ pc[r] = "confirming" \/ (stage[r] = "submit" /\ pc[r] = "quoting") =>
             AsQuoted(r, shown[r])
        /\ stage[r] = "submit" /\ pc[r] \in {"checking", "asking", "placing"} =>
             seen[r].qty = shown[r] \/ (cmd[r].by = "usd" /\ repriced[r])

\* What submit() has read is still so, unless it is marked stale.
ChecksKept ==
    \A r \in Operators :
        /\ r \in Requoted => seen[r].ref = price \/ stale[r]
        /\ r \in Rechecked /\ cmd[r].buys => seen[r].qty * seen[r].ref <= power \/ stale[r]

\* The inductive invariant.
OrderIInv == Typed /\ Staged /\ OrdersTraced /\ OneOrderPerConfirmation /\ QuotesKept /\ ChecksKept

-----------------------------------------------------------------------------

\* A command buys a whole number of shares, none perhaps; an order in shares,
\* the same number at every price.
LEMMA QuantityType ==
    ASSUME NEW c \in Commands, NEW p \in Prices
    PROVE  /\ ShareCount(c, p) \in Nat
           /\ c.by = "shares" => \A q \in Prices : ShareCount(c, p) = ShareCount(c, q)
<1>1. c.amount \in Nat /\ p \in Nat \ {0}
    OBVIOUS
<1>2. c.amount \div p \in Nat
    BY <1>1
<1> QED
    BY <1>1, <1>2 DEF ShareCount

\* A placement is new, well typed, and leaves finitely many orders.
LEMMA PlacementType ==
    ASSUME Typed, NEW r \in Operators, pc[r] = "placing", orders' = orders \cup {Order(r)}
    PROVE  /\ Order(r) \in Placement /\ Order(r).qty >= 1
           /\ IsFiniteSet(orders')
<1>1. Cardinality(orders) \in Nat
    BY FS_CardinalityType DEF Typed
<1>2. attempt[r] \in Nat /\ seen[r].qty \in Nat /\ seen[r].qty >= 1
    BY DEF Typed, OrderTypeOK, OrderSteps
<1>3. IsFiniteSet(orders')
    BY FS_AddElement DEF Typed
<1> QED
    BY <1>1, <1>2, <1>3 DEF Order, Placement

LEMMA OrderInitIInv == OrderInit => OrderIInv
<1> SUFFICES ASSUME OrderInit PROVE OrderIInv
    OBVIOUS
<1>1. OrderTypeOK
    BY DEF OrderInit, OrderTypeOK, Ended, Nothing, Placement
<1>2. IsFiniteSet(orders)
    BY FS_EmptySet DEF OrderInit
<1>3. Typed /\ Staged /\ OrdersTraced /\ OneOrderPerConfirmation
    BY <1>1, <1>2 DEF OrderInit, Typed, Staged, OrdersTraced, OneOrderPerConfirmation, OrderSteps
<1>4. QuotesKept /\ ChecksKept
    BY DEF OrderInit, QuotesKept, ChecksKept, Requoted, Rechecked
<1> QED
    BY <1>3, <1>4 DEF OrderIInv

\* Types are preserved.
LEMMA StepTyped ==
    ASSUME Typed, [OrderNext]_orderVars
    PROVE  Typed'
<1> USE DEF Typed
<1>1. CASE MovePrice
    BY <1>1 DEF MovePrice, Mark, OrderTypeOK, Requoted
<1>2. CASE MovePower
    BY <1>2 DEF MovePower, Mark, OrderTypeOK, Rechecked
<1>3. ASSUME NEW r \in Operators, Start(r) PROVE Typed'
    BY <1>3 DEF Start, OrderTypeOK, OrderSteps, Ended, market, Nothing
<1>4. ASSUME NEW r \in Operators, Quote(r) PROVE Typed'
  <2>1. cmd[r] \in Commands /\ price \in Prices
    BY DEF OrderTypeOK
  <2>2. ShareCount(cmd[r], price) \in Nat
    BY <2>1, QuantityType
  <2> DEFINE n == ShareCount(cmd[r], price)
  <2>3. CASE cmd[r].whole /\ n >= 1
    <3>1. /\ seen' = [seen EXCEPT ![r] = [qty |-> n, ref |-> price]]
          /\ pc' = [pc EXCEPT ![r] = "checking"]
          /\ repriced' = [repriced EXCEPT ![r] = @ /\ stage[r] = "submit"]
          /\ stale' = [stale EXCEPT ![r] = FALSE]
        BY <1>4, <2>3 DEF Quote
    <3>2. repriced' \in [Operators -> BOOLEAN] /\ stale' \in [Operators -> BOOLEAN]
        BY <3>1 DEF OrderTypeOK
    <3>3. [qty |-> n, ref |-> price] \in [qty : Nat, ref : Prices \cup {0}]
        BY <2>1, <2>2
    <3>4. seen' \in [Operators -> [qty : Nat, ref : Prices \cup {0}]]
        BY <3>1, <3>3 DEF OrderTypeOK
    <3>5. pc[r] = "quoting" /\ UNCHANGED <<market, orders, cmd, attempt, stage, shown, records, confirmed>>
        BY <1>4 DEF Quote
    <3> HIDE DEF n
    <3>6. OrderTypeOK'
        BY <3>1, <3>2, <3>4, <3>5 DEF OrderTypeOK, OrderSteps, market
    <3>7. \A o \in Operators : pc'[o] \in OrderSteps => attempt'[o] >= 1
        BY <3>1, <3>5 DEF OrderTypeOK, OrderSteps
    <3>8. \A o \in Operators : pc'[o] \in {"checking", "asking", "confirming", "placing"} =>
                seen'[o].qty >= 1 /\ seen'[o].ref \in Prices
        BY <2>1, <2>3, <3>1 DEF OrderTypeOK
    <3> QED
        BY <3>5, <3>6, <3>7, <3>8
  <2>4. CASE ~(cmd[r].whole /\ n >= 1)
    BY <1>4, <2>4 DEF Quote, Invalid, OrderTypeOK, OrderSteps, Ended, market
  <2> QED
    BY <2>3, <2>4
<1>5. ASSUME NEW r \in Operators, CheckPower(r) PROVE Typed'
  <2>1. pc[r] = "checking" /\ \E x \in {"refused", "failed", "asking"} : pc' = [pc EXCEPT ![r] = x]
    BY <1>5 DEF CheckPower, Invalid
  <2>2. UNCHANGED <<market, orders, cmd, attempt, stage, seen, shown, records,
                    confirmed, repriced, stale>>
    BY <1>5 DEF CheckPower
  <2> QED
    BY <2>1, <2>2 DEF OrderTypeOK, OrderSteps, Ended, market
<1>6. ASSUME NEW r \in Operators, AskBroker(r) PROVE Typed'
    BY <1>6 DEF AskBroker, OrderTypeOK, OrderSteps, Ended, market
<1>7. ASSUME NEW r \in Operators, Confirm(r) PROVE Typed'
  <2>1. attempt[r] \in Nat
    BY <1>7 DEF Confirm, OrderTypeOK, OrderSteps
  <2> QED
    BY <1>7, <2>1 DEF Confirm, OrderTypeOK, OrderSteps, Ended, market
<1>8. ASSUME NEW r \in Operators, Decline(r) PROVE Typed'
    BY <1>8 DEF Decline, OrderTypeOK, OrderSteps, Ended, market
<1>9. ASSUME NEW r \in Operators, Place(r) PROVE Typed'
  <2>1. /\ Order(r) \in Placement /\ Order(r).qty >= 1
        /\ IsFiniteSet(orders')
    BY <1>9, PlacementType DEF Place, Taken
  <2>2. stale' \in [Operators -> BOOLEAN]
    BY <1>9 DEF Place, Taken, Mark, OrderTypeOK
  <2>3. /\ pc[r] = "placing"
        /\ \E next \in {"recording", "failed"} : pc' = [pc EXCEPT ![r] = next]
        /\ orders' = orders \cup {Order(r)} /\ power' \in Powers
    BY <1>9 DEF Place, Taken
  <2>4. UNCHANGED <<price, moves, cmd, attempt, stage, seen, shown, records, confirmed, repriced>>
    BY <1>9 DEF Place
  <2>5. OrderTypeOK'
    BY <2>1, <2>2, <2>3, <2>4 DEF OrderTypeOK, OrderSteps, Ended
  <2>6. \A o \in Operators : pc'[o] \in OrderSteps => pc[o] \in OrderSteps
    BY <2>3 DEF OrderTypeOK, OrderSteps
  <2>7. \A o \in Operators : pc'[o] \in {"checking", "asking", "confirming", "placing"} => pc'[o] = pc[o]
    BY <2>3 DEF OrderTypeOK
  <2> QED
    BY <2>1, <2>4, <2>5, <2>6, <2>7
<1>10. ASSUME NEW r \in Operators, CallFails(r) PROVE Typed'
    BY <1>10 DEF CallFails, OrderTypeOK, OrderSteps, Ended, market
<1>11. ASSUME NEW r \in Operators, Record(r) PROVE Typed'
    BY <1>11 DEF Record, OrderTypeOK, OrderSteps, Ended, market, Placement
<1>12. CASE UNCHANGED orderVars
    BY <1>12 DEF orderVars, market, OrderTypeOK
<1> QED
    BY <1>1, <1>2, <1>3, <1>4, <1>5, <1>6, <1>7, <1>8, <1>9, <1>10, <1>11, <1>12 DEF OrderNext

\* So are the places an attempt goes through and the orders' provenance.
LEMMA StepTraced ==
    ASSUME Typed, Staged, OrdersTraced, OneOrderPerConfirmation, [OrderNext]_orderVars
    PROVE  Staged' /\ OrdersTraced' /\ OneOrderPerConfirmation'
<1>0. /\ orders \subseteq Placement
      /\ pc \in [Operators -> Ended \cup OrderSteps]
      /\ attempt \in [Operators -> Nat]
      /\ stage \in [Operators -> {"preview", "submit"}]
    BY DEF Typed, OrderTypeOK
<1> USE <1>0 DEF Staged, OrdersTraced, OneOrderPerConfirmation, Placement
<1>1. CASE MovePrice \/ MovePower
    BY <1>1 DEF MovePrice, MovePower
<1>2. ASSUME NEW r \in Operators, Start(r) PROVE Staged' /\ OrdersTraced' /\ OneOrderPerConfirmation'
    BY <1>2 DEF Start, Ended
<1>3. ASSUME NEW r \in Operators, Quote(r) \/ CheckPower(r) \/ AskBroker(r)
      PROVE  Staged' /\ OrdersTraced' /\ OneOrderPerConfirmation'
  <2>1. UNCHANGED <<orders, confirmed, attempt, stage>>
    BY <1>3 DEF Quote, CheckPower, AskBroker
  <2>2. /\ pc[r] \in {"quoting", "checking", "asking"}
        /\ \E p \in {"checking", "asking", "confirming", "placing", "refused", "failed"} :
             /\ pc' = [pc EXCEPT ![r] = p]
             /\ p = "placing" => stage[r] = "submit"
             /\ p = "confirming" => stage[r] = "preview"
    BY <1>3 DEF Quote, CheckPower, AskBroker, Invalid
  <2> QED
    BY <2>1, <2>2
<1>4. ASSUME NEW r \in Operators, Confirm(r) PROVE Staged' /\ OrdersTraced' /\ OneOrderPerConfirmation'
    BY <1>4 DEF Confirm
<1>5. ASSUME NEW r \in Operators, Decline(r) PROVE Staged' /\ OrdersTraced' /\ OneOrderPerConfirmation'
    BY <1>5 DEF Decline
<1>6. ASSUME NEW r \in Operators, Place(r) PROVE Staged' /\ OrdersTraced' /\ OneOrderPerConfirmation'
  <2>1. /\ orders' = orders \cup {Order(r)}
        /\ pc[r] = "placing"
        /\ UNCHANGED <<confirmed, attempt, stage>>
        /\ \E next \in {"recording", "failed"} : pc' = [pc EXCEPT ![r] = next]
    BY <1>6 DEF Place, Taken
  <2>2. \A o \in orders : o.run = r => o.attempt # attempt[r]
    BY <2>1
  <2>3. Order(r).run = r /\ Order(r).attempt = attempt[r]
    BY DEF Order
  <2>4. Staged'
    BY <2>1
  <2>5. OrdersTraced'
    <3>1. ASSUME NEW o \in orders'
          PROVE  /\ <<o.run, o.attempt>> \in confirmed
                 /\ o.attempt <= attempt[o.run]
                 /\ o.attempt = attempt[o.run] =>
                      stage[o.run] = "submit" /\ pc'[o.run] \in {"recording", "ordered", "failed"}
      <4>1. CASE o \in orders
        BY <2>1, <2>2, <4>1
      <4>2. CASE o = Order(r)
        BY <2>1, <2>3, <4>2
      <4> QED
        BY <2>1, <4>1, <4>2
    <3> QED
        BY <2>1, <3>1
  <2>6. OneOrderPerConfirmation'
    BY <2>1, <2>2, <2>3
  <2> QED
    BY <2>4, <2>5, <2>6
<1>7. ASSUME NEW r \in Operators, CallFails(r) PROVE Staged' /\ OrdersTraced' /\ OneOrderPerConfirmation'
    BY <1>7 DEF CallFails
<1>8. ASSUME NEW r \in Operators, Record(r) PROVE Staged' /\ OrdersTraced' /\ OneOrderPerConfirmation'
    BY <1>8 DEF Record
<1>9. CASE UNCHANGED orderVars
    BY <1>9 DEF orderVars
<1> QED
    BY <1>1, <1>2, <1>3, <1>4, <1>5, <1>6, <1>7, <1>8, <1>9 DEF OrderNext

\* And so is what the previews read.
LEMMA StepKept ==
    ASSUME Typed, Staged, QuotesKept, ChecksKept, [OrderNext]_orderVars
    PROVE  QuotesKept' /\ ChecksKept'
<1>0. /\ pc \in [Operators -> Ended \cup OrderSteps]
      /\ stage \in [Operators -> {"preview", "submit"}]
      /\ seen \in [Operators -> [qty : Nat, ref : Prices \cup {0}]]
      /\ shown \in [Operators -> Nat]
      /\ cmd \in [Operators -> Commands]
      /\ repriced \in [Operators -> BOOLEAN] /\ stale \in [Operators -> BOOLEAN]
      /\ price \in Prices /\ power \in Powers
    BY DEF Typed, OrderTypeOK
<1> USE <1>0 DEF QuotesKept, ChecksKept, AsQuoted, Requoted, Rechecked
<1>1. CASE MovePrice
    BY <1>1 DEF MovePrice, Mark
<1>2. CASE MovePower
    BY <1>2 DEF MovePower, Mark
<1>3. ASSUME NEW r \in Operators, Start(r) PROVE QuotesKept' /\ ChecksKept'
    BY <1>3 DEF Start, market
<1>4. ASSUME NEW r \in Operators, Quote(r) PROVE QuotesKept' /\ ChecksKept'
  <2>1. CASE cmd[r].whole /\ ShareCount(cmd[r], price) >= 1
    <3>1. /\ pc[r] = "quoting"
          /\ seen' = [seen EXCEPT ![r] = [qty |-> ShareCount(cmd[r], price), ref |-> price]]
          /\ pc' = [pc EXCEPT ![r] = "checking"]
          /\ repriced' = [repriced EXCEPT ![r] = @ /\ stage[r] = "submit"]
          /\ stale' = [stale EXCEPT ![r] = FALSE]
          /\ UNCHANGED <<price, power, cmd, stage, shown>>
        BY <1>4, <2>1 DEF Quote, market
    <3>2. \A o \in Operators \ {r} :
            /\ pc'[o] = pc[o] /\ seen'[o] = seen[o]
            /\ repriced'[o] = repriced[o] /\ stale'[o] = stale[o]
        BY <3>1
    <3>3. seen'[r].qty = ShareCount(cmd[r], price) /\ seen'[r].ref = price /\ pc'[r] = "checking"
        BY <3>1
    <3>4. repriced'[r] = (repriced[r] /\ stage[r] = "submit")
        BY <3>1
    <3>5. stage[r] = "submit" => seen'[r].qty = shown[r] \/ (cmd[r].by = "usd" /\ repriced'[r])
      <4> SUFFICES ASSUME stage[r] = "submit", ~(cmd[r].by = "usd" /\ repriced[r])
                   PROVE  ShareCount(cmd[r], price) = shown[r]
        BY <3>3, <3>4
      <4>1. shown[r] = ShareCount(cmd[r], seen[r].ref) /\ (seen[r].ref = price \/ repriced[r])
        BY <3>1
      <4>2. CASE seen[r].ref = price
        BY <4>1, <4>2
      <4>3. CASE cmd[r].by = "shares"
        BY <4>1, <4>3 DEF ShareCount
      <4> QED
        BY <4>1, <4>2, <4>3
    <3>6. QuotesKept'
        BY <3>1, <3>2, <3>3, <3>5
    <3>7. ChecksKept'
        BY <3>1, <3>2, <3>3
    <3> QED
        BY <3>6, <3>7
  <2>2. CASE ~(cmd[r].whole /\ ShareCount(cmd[r], price) >= 1)
    BY <1>4, <2>2 DEF Quote, Invalid, market
  <2> QED
    BY <2>1, <2>2
<1>5. ASSUME NEW r \in Operators, CheckPower(r) PROVE QuotesKept' /\ ChecksKept'
    BY <1>5 DEF CheckPower, Invalid, market
<1>6. ASSUME NEW r \in Operators, AskBroker(r) PROVE QuotesKept' /\ ChecksKept'
    BY <1>6 DEF AskBroker, market
<1>7. ASSUME NEW r \in Operators, Confirm(r) PROVE QuotesKept' /\ ChecksKept'
    BY <1>7 DEF Confirm, market, Staged
<1>8. ASSUME NEW r \in Operators, Decline(r) PROVE QuotesKept' /\ ChecksKept'
    BY <1>8 DEF Decline, market
<1>9. ASSUME NEW r \in Operators, Place(r) PROVE QuotesKept' /\ ChecksKept'
    BY <1>9 DEF Place, Taken, Mark
<1>10. ASSUME NEW r \in Operators, CallFails(r) PROVE QuotesKept' /\ ChecksKept'
    BY <1>10 DEF CallFails, market
<1>11. ASSUME NEW r \in Operators, Record(r) PROVE QuotesKept' /\ ChecksKept'
    BY <1>11 DEF Record, market
<1>12. CASE UNCHANGED orderVars
    BY <1>12 DEF orderVars, market
<1> QED
    BY <1>1, <1>2, <1>3, <1>4, <1>5, <1>6, <1>7, <1>8, <1>9, <1>10, <1>11, <1>12 DEF OrderNext

LEMMA OrderSpecIInv == OrderSpec => []OrderIInv
<1>1. OrderInit => OrderIInv
    BY OrderInitIInv
<1>2. OrderIInv /\ [OrderNext]_orderVars => OrderIInv'
    BY StepTyped, StepTraced, StepKept DEF OrderIInv
<1> QED
    BY <1>1, <1>2, PTL DEF OrderSpec

-----------------------------------------------------------------------------

\* The variables stay in their types, and every order is for at least one share.
THEOREM OrderTypeCorrect == OrderSpec => []OrderTypeOK
<1>1. OrderIInv => OrderTypeOK
    BY DEF OrderIInv, Typed
<1> QED
    BY <1>1, OrderSpecIInv, PTL

\* No order without a confirmation, and no second one on the same confirmation,
\* whichever broker call fails and however often the script is run again.
THEOREM ConfirmedOnce == OrderSpec => []OneOrderPerConfirmation
<1>1. OrderIInv => OneOrderPerConfirmation
    BY DEF OrderIInv
<1> QED
    BY <1>1, OrderSpecIInv, PTL

\* Only Place adds an order, its operator's.
LEMMA NewOrders ==
    ASSUME OrderIInv, [OrderNext]_orderVars, NEW o \in orders' \ orders
    PROVE  \E r \in Operators :
             /\ Place(r) /\ o = Order(r)
             /\ pc[r] = "placing" /\ stage[r] = "submit"
<1>1. \E r \in Operators : Place(r)
    BY DEF OrderNext, orderVars, MovePrice, MovePower, Start, Quote, CheckPower, AskBroker,
           Confirm, Decline, CallFails, Record
<1> QED
    BY <1>1 DEF Place, Taken, OrderIInv, Staged

\* What is placed is what the operator was shown, unless the order is in dollars
\* and the price has moved since.
THEOREM ShownIsPlaced == OrderSpec => PlacedAsShown
<1>1. ASSUME OrderIInv, [OrderNext]_orderVars, NEW o \in orders' \ orders
      PROVE  o.qty = shown[o.run] \/ (cmd[o.run].by = "usd" /\ repriced[o.run])
  <2>1. PICK r \in Operators : o = Order(r) /\ pc[r] = "placing" /\ stage[r] = "submit"
    BY <1>1, NewOrders
  <2>2. o.run = r /\ o.qty = seen[r].qty
    BY <2>1 DEF Order
  <2> QED
    BY <2>1, <2>2, <1>1 DEF OrderIInv, QuotesKept
<1>2. OrderIInv /\ [OrderNext]_orderVars =>
        [\A o \in orders' \ orders :
            o.qty = shown[o.run] \/ (cmd[o.run].by = "usd" /\ repriced[o.run])]_orderVars
    BY <1>1
<1> QED
    BY <1>2, OrderSpecIInv, PTL DEF OrderSpec, PlacedAsShown

\* A buy beyond the buying power is one that raced with the market inside
\* submit(), however long the operator took to confirm.
THEOREM RevalidationHolds == OrderSpec => OverspendsOnlyInARace
<1>1. ASSUME OrderIInv, [OrderNext]_orderVars, NEW o \in orders' \ orders, cmd[o.run].buys
      PROVE  o.qty * price <= power \/ stale[o.run]
  <2>1. PICK r \in Operators : o = Order(r) /\ pc[r] = "placing" /\ stage[r] = "submit"
    BY <1>1, NewOrders
  <2>2. o.run = r /\ o.qty = seen[r].qty
    BY <2>1 DEF Order
  <2>3. r \in Requoted /\ r \in Rechecked
    BY <2>1 DEF Requoted, Rechecked
  <2> QED
    BY <2>2, <2>3, <1>1 DEF OrderIInv, ChecksKept
<1>2. OrderIInv /\ [OrderNext]_orderVars =>
        [\A o \in orders' \ orders :
            cmd[o.run].buys => o.qty * price <= power \/ stale[o.run]]_orderVars
    BY <1>1
<1> QED
    BY <1>2, OrderSpecIInv, PTL DEF OrderSpec, OverspendsOnlyInARace

-----------------------------------------------------------------------------
(***************************************************************************)
(* The components side by side: MCAdvice behaves as each of them does, and *)
(* every theorem about one of them holds of it too.                        *)
(***************************************************************************)

LEMMA AdviceStep ==
    ASSUME [AdviceNext]_<<vars, councilVars, factsVars, orderVars, scene>>
    PROVE  /\ [Next]_vars /\ [CouncilNext]_councilVars
           /\ [FactsNext]_factsVars /\ [OrderNext]_orderVars
           /\ scene' = scene
BY DEF AdviceNext

\* MCAdvice behaves as the ledger, the council, the facts and the orders each do.
THEOREM AdviceIsTheComponents == AdviceSpec => Spec /\ CouncilSpec /\ FactsSpec /\ OrderSpec
<1>1. AdviceInit => Init /\ CouncilInit /\ FactsInit /\ OrderInit
  BY DEF AdviceInit
<1> QED
  BY <1>1, AdviceStep, PTL DEF AdviceSpec, Spec, CouncilSpec, FactsSpec, OrderSpec

\* The variables of the component on stage stay in their types.
THEOREM AdviceTypeCorrect == AdviceSpec => []AdviceTypeOK
<1> DEFINE OnStage == scene \in {"ledger", "council", "facts", "order"}
<1>1. AdviceInit => OnStage
  BY DEF AdviceInit
<1>2. OnStage /\ [AdviceNext]_<<vars, councilVars, factsVars, orderVars, scene>> => OnStage'
  BY AdviceStep
<1>3. OnStage /\ TypeOK /\ CouncilTypeOK /\ FactsTypeOK /\ OrderTypeOK => AdviceTypeOK
  BY DEF AdviceTypeOK
<1> HIDE DEF OnStage
<1> QED
  BY <1>1, <1>2, <1>3, AdviceIsTheComponents, LedgerTypeCorrect, CouncilTypeCorrect,
     FactsTypeCorrect, OrderTypeCorrect, PTL DEF AdviceSpec

=============================================================================
