--------------------------- MODULE RefreshProofs ----------------------------
(***************************************************************************)
(* Theorems about RefreshPositions, for any number of symbols, levels,     *)
(* requests, trades and refreshes, and any threshold, and about UnitOfWork, *)
(* for any number of units, events and stores.                             *)
(***************************************************************************)
EXTENDS RefreshPositions, UnitOfWork, FiniteSetTheorems, TLAPS

USE RefreshAssumption

\* The type invariant, with the domain of events.
Types == TypeOK /\ events \in [Refreshers -> SUBSET Event]

\* The symbol and the row a blocked statement waits for.
Target == [symbol : Symbols, row : Rows \cup {NoRow}]

\* Every time stamp is one that was taken.
Timely ==
    /\ \A s \in Symbols : local[s].asOf <= clock
    /\ \A r \in Refreshers : pc[r] # "idle" => now[r] \in 1 .. clock

\* The event that goes with a stored position.
RowEvent(s, level, at) == [kind |-> "reconciled", symbol |-> s, level |-> level, at |-> at]

\* A transaction writes what it read, with the event of it; nothing before it has
\* loaded its rows.
Written ==
    \A r \in Refreshers :
        /\ pc[r] \in {"idle", "started", "read"} => wrote[r] = CleanTx /\ todo[r] = {}
        /\ \A s \in Symbols : wrote[r][s] \notin {Untouched, Deleted} =>
            wrote[r][s] = fresh[r][s] /\ RowEvent(s, fresh[r][s], now[r]) \in events[r]
        /\ \A s \in todo[r] : fresh[r][s] # 0 \/ prior[r][s] # 0
        /\ pc[r] = "blocked" => seen[r] \in Target /\ seen[r].symbol \in todo[r]

\* What a refresh that nobody disturbs will have done to a symbol.
Outcome(r, s) ==
    IF fresh[r][s] # 0 THEN fresh[r][s] ELSE IF local[s].level # 0 THEN Deleted ELSE Untouched

\* Until another one commits, a refresh is later than every row, and once it has
\* loaded the rows under their own identifier they stay the ones it knows.
Alone ==
    \A r \in Refreshers : ~disturbed[r] =>
        /\ pc[r] # "idle" => \A s \in Symbols : local[s].asOf < now[r]
        /\ pc[r] \in {"writing", "blocked"} /\ key[r] = "hash" =>
            /\ \A s \in Symbols : prior[r][s] = local[s].level
            /\ \A s \in Symbols \ todo[r] : wrote[r][s] = Outcome(r, s)
        /\ pc[r] = "blocked" => seen[r].row = local[seen[r].symbol]

\* The inductive invariant.
RefreshIInv == Types /\ Timely /\ Written /\ RowsHaveEvents /\ Alone

-----------------------------------------------------------------------------

LEMMA RowFacts ==
    ASSUME Types, NEW s \in Symbols
    PROVE  /\ local[s] \in Rows \cup {NoRow}
           /\ local[s].level \in Nat /\ local[s].asOf \in Nat
           /\ local[s].level = 0 <=> local[s] = NoRow
BY DEF Types, TypeOK, Rows, NoRow, Levels

LEMMA RefreshInitIInv == Init => RefreshIInv
<1> SUFFICES ASSUME Init PROVE RefreshIInv
  OBVIOUS
<1>1. Types
  <2>1. account \in BOOLEAN
    BY Zenon DEF Init
  <2>2. newAccount \in [Refreshers -> BOOLEAN] /\ disturbed \in [Refreshers -> BOOLEAN]
    BY Zenon DEF Init
  <2>3. -1 \in Untouched .. MaxLevel
    BY DEF Untouched
  <2>4. wrote \in [Refreshers -> [Symbols -> Untouched .. MaxLevel]]
    BY <2>3 DEF Init, CleanTx, Untouched
  <2>5. fresh \in [Refreshers -> [Symbols -> 0 .. MaxLevel]]
        /\ prior \in [Refreshers -> [Symbols -> 0 .. MaxLevel]]
    BY DEF Init, Nothing
  <2>6. QED
    BY <2>1, <2>2, <2>4, <2>5 DEF Init, Types, TypeOK, Phases
<1>2. Timely /\ RowsHaveEvents
  BY DEF Init, Timely, RowsHaveEvents, NoRow
<1>3. Written /\ Alone
  BY DEF Init, Written, Alone, CleanTx
<1>4. QED
  BY <1>1, <1>2, <1>3 DEF RefreshIInv

LEMMA TradeStep == RefreshIInv /\ Trade => RefreshIInv'
<1> SUFFICES ASSUME RefreshIInv, Trade PROVE RefreshIInv'
  OBVIOUS
<1>1. UNCHANGED <<account, local, outbox, clock, reqVars, disturbed>>
      /\ broker' \in [Symbols -> 0 .. MaxLevel] /\ trades' \in 0 .. MaxTrades
  BY DEF Trade, RefreshIInv, Types, TypeOK
<1>2. Types'
  BY <1>1 DEF RefreshIInv, Types, TypeOK, reqVars
<1>3. Timely' /\ Written' /\ RowsHaveEvents' /\ Alone'
  BY <1>1 DEF RefreshIInv, reqVars, Timely, Written, RowsHaveEvents, Alone, Outcome
<1>4. QED
  BY <1>2, <1>3 DEF RefreshIInv

LEMMA StartStep ==
    ASSUME RefreshIInv, NEW r \in Refreshers, Start(r) PROVE RefreshIInv'
<1> USE DEF RefreshIInv
<1>1. UNCHANGED <<broker, trades, account, local, outbox, fresh, prior, todo, wrote, newAccount,
                  events, seen>>
      /\ pc[r] = "idle" /\ clock' = clock + 1 /\ clock' \in 1 .. MaxRefreshes
      /\ now' = [now EXCEPT ![r] = clock'] /\ pc' = [pc EXCEPT ![r] = "started"]
      /\ disturbed' = [disturbed EXCEPT ![r] = FALSE]
  BY DEF Start, Types, TypeOK
<1>2. key' \in [Refreshers -> {"hash", "alias"}] /\ \A v \in Refreshers \ {r} : key'[v] = key[v]
  BY DEF Start, Types, TypeOK
<1>3. disturbed' \in [Refreshers -> BOOLEAN]
  BY <1>1, Zenon DEF Types, TypeOK
<1>4. Types'
  BY <1>1, <1>2, <1>3 DEF Types, TypeOK, Phases
<1>5. Timely'
  BY <1>1, RowFacts DEF Timely, Types, TypeOK
<1>6. Written' /\ RowsHaveEvents'
  BY <1>1 DEF Written, RowsHaveEvents, Types, TypeOK, CleanTx
<1>7. Alone'
  <2>1. \A s \in Symbols : local'[s].asOf < now'[r]
    BY <1>1, RowFacts DEF Timely, Types, TypeOK
  <2>2. \A v \in Refreshers \ {r} : pc'[v] = pc[v] /\ now'[v] = now[v] /\ disturbed'[v] = disturbed[v]
    BY <1>1 DEF Types, TypeOK
  <2>3. pc'[r] = "started"
    BY <1>1 DEF Types, TypeOK
  <2>4. QED
    BY <1>1, <1>2, <2>1, <2>2, <2>3 DEF Alone, Outcome
<1>8. QED
  BY <1>4, <1>5, <1>6, <1>7

\* What a request reads and loads is its own.
LEMMA ReadBrokerStep ==
    ASSUME RefreshIInv, NEW r \in Refreshers, ReadBroker(r) PROVE RefreshIInv'
<1> USE DEF RefreshIInv
<1>1. UNCHANGED <<broker, trades, account, local, outbox, clock, key, now, prior, todo, wrote,
                  newAccount, events, seen, disturbed>>
      /\ pc[r] = "started" /\ fresh' = [fresh EXCEPT ![r] = broker]
      /\ pc' = [pc EXCEPT ![r] = "read"]
  BY DEF ReadBroker
<1>2. Types'
  BY <1>1 DEF Types, TypeOK, Phases
<1>3. Timely' /\ RowsHaveEvents'
  BY <1>1 DEF Timely, RowsHaveEvents, Types, TypeOK
<1>4. Written'
  BY <1>1 DEF Written, Types, TypeOK, CleanTx
<1>5. Alone'
  BY <1>1 DEF Alone, Outcome, Types, TypeOK
<1>6. QED
  BY <1>2, <1>3, <1>4, <1>5

LEMMA LoadStep ==
    ASSUME RefreshIInv, NEW r \in Refreshers, Load(r) PROVE RefreshIInv'
<1> USE DEF RefreshIInv
<1>1. UNCHANGED <<broker, trades, account, local, outbox, clock, key, now, fresh, wrote, events,
                  seen, disturbed>>
      /\ pc[r] = "read" /\ pc' = [pc EXCEPT ![r] = "writing"]
      /\ prior' = [prior EXCEPT ![r] = PriorRows(r)]
      /\ todo' = [todo EXCEPT ![r] = {s \in Symbols : fresh[r][s] # 0 \/ PriorRows(r)[s] # 0}]
  BY DEF Load
<1>2. newAccount' \in [Refreshers -> BOOLEAN]
  <2>1. PICK b \in BOOLEAN : newAccount' = [newAccount EXCEPT ![r] = b]
    BY Zenon DEF Load
  <2>2. QED
    BY <2>1, Zenon DEF Types, TypeOK
<1>3. PriorRows(r) \in [Symbols -> 0 .. MaxLevel]
  BY DEF PriorRows, Nothing, Types, TypeOK, Rows, NoRow, Levels
<1>4. Types'
  BY <1>1, <1>2, <1>3 DEF Types, TypeOK, Phases
<1>5. Timely' /\ RowsHaveEvents' /\ Written'
  BY <1>1 DEF Timely, RowsHaveEvents, Written, Types, TypeOK
<1>6. Alone'
  <2>1. \A v \in Refreshers \ {r} : pc'[v] = pc[v] /\ prior'[v] = prior[v] /\ todo'[v] = todo[v]
    BY <1>1 DEF Types, TypeOK
  <2>2. pc'[r] = "writing" /\ prior'[r] = PriorRows(r)
        /\ todo'[r] = {s \in Symbols : fresh[r][s] # 0 \/ PriorRows(r)[s] # 0}
    BY <1>1 DEF Types, TypeOK
  <2>3. ASSUME key[r] = "hash", NEW s \in Symbols
        PROVE  /\ PriorRows(r)[s] = local[s].level
               /\ s \notin todo'[r] => wrote[r][s] = Outcome(r, s)
    <3>1. PriorRows(r)[s] = local[s].level
      BY <2>3 DEF PriorRows
    <3>2. wrote[r][s] = Untouched
      BY <1>1 DEF Written, CleanTx
    <3>3. QED
      BY <2>2, <3>1, <3>2 DEF Outcome
  <2>4. QED
    BY <1>1, <2>1, <2>2, <2>3 DEF Alone, Outcome
<1>7. QED
  BY <1>4, <1>5, <1>6

\* A statement that waits has seen the row as it is.
LEMMA BlockStep ==
    ASSUME RefreshIInv, NEW r \in Refreshers, NEW s \in Symbols, Block(r, s) PROVE RefreshIInv'
<1> USE DEF RefreshIInv
<1>1. UNCHANGED <<broker, trades, account, local, outbox, clock, key, now, fresh, prior, todo, wrote,
                  newAccount, events, disturbed>>
      /\ pc[r] = "writing" /\ s \in todo[r] /\ pc' = [pc EXCEPT ![r] = "blocked"]
      /\ seen' = [seen EXCEPT ![r] = [symbol |-> s, row |-> local[s]]]
  BY DEF Block, MayWrite
<1>2. [symbol |-> s, row |-> local[s]] \in Target
  BY DEF Types, TypeOK, Target
<1>3. Types'
  BY <1>1, <1>2 DEF Types, TypeOK, Phases, Target
<1>4. Timely' /\ RowsHaveEvents'
  BY <1>1 DEF Timely, RowsHaveEvents, Types, TypeOK
<1>5. Written'
  BY <1>1, <1>2 DEF Written, Types, TypeOK
<1>6. Alone'
  BY <1>1 DEF Alone, Outcome, Types, TypeOK
<1>7. QED
  BY <1>3, <1>4, <1>5, <1>6

\* The symbol is written as it was read, or is an orphan's that is gone or new.
LEMMA Handled ==
    ASSUME RefreshIInv, NEW r \in Refreshers, NEW s \in Symbols, pc[r] \in {"writing", "blocked"},
           s \in todo[r], WriteEffect(r, s) \/ UNCHANGED wrote, s \in Reported(r) => WriteEffect(r, s),
           Done(r, s),
           pc' = [pc EXCEPT ![r] = "writing"],
           \A v \in Refreshers \ {r} : seen'[v] = seen[v],
           seen' \in [Refreshers -> [symbol : Symbols, row : Rows \cup {NoRow}] \cup {NoRow}],
           UNCHANGED <<broker, trades, account, local, outbox, clock, key, now, fresh, prior,
                       newAccount, disturbed>>
    PROVE  /\ Types' /\ Timely' /\ RowsHaveEvents' /\ Written'
           /\ \A v \in Refreshers \ {r} : pc'[v] = pc[v] /\ todo'[v] = todo[v] /\ wrote'[v] = wrote[v]
           /\ pc'[r] = "writing" /\ todo'[r] = todo[r] \ {s}
           /\ \A x \in Symbols \ {s} : wrote'[r][x] = wrote[r][x]
<1> USE DEF RefreshIInv
<1>1. now[r] \in 1 .. MaxRefreshes /\ fresh[r][s] \in 0 .. MaxLevel /\ prior[r][s] \in 0 .. MaxLevel
  BY DEF Timely, Types, TypeOK
<1>2. Reported(r) = {x \in Symbols : fresh[r][x] # 0}
      /\ Orphans(r) = {x \in Symbols : fresh[r][x] = 0 /\ prior[r][x] # 0}
  BY DEF Reported, Orphans
<1>3. wrote' = wrote \/ \E w \in Untouched .. MaxLevel :
          wrote' = [wrote EXCEPT ![r][s] = w] /\ (w \notin {Untouched, Deleted} => w = fresh[r][s] /\ w # 0)
  BY <1>1, <1>2 DEF WriteEffect, Untouched, Deleted
<1>4. wrote' \in [Refreshers -> [Symbols -> Untouched .. MaxLevel]]
      /\ (\A v \in Refreshers \ {r} : wrote'[v] = wrote[v])
      /\ (\A x \in Symbols \ {s} : wrote'[r][x] = wrote[r][x])
      /\ (wrote'[r][s] = wrote[r][s]
          \/ (wrote'[r][s] \notin {Untouched, Deleted} => wrote'[r][s] = fresh[r][s] /\ fresh[r][s] # 0))
  <2>1. wrote \in [Refreshers -> [Symbols -> Untouched .. MaxLevel]]
    BY DEF Types, TypeOK
  <2>2. CASE wrote' = wrote
    BY <2>1, <2>2
  <2>3. ASSUME NEW w \in Untouched .. MaxLevel, wrote' = [wrote EXCEPT ![r][s] = w],
               w \notin {Untouched, Deleted} => w = fresh[r][s] /\ w # 0
        PROVE  /\ wrote' \in [Refreshers -> [Symbols -> Untouched .. MaxLevel]]
               /\ \A v \in Refreshers \ {r} : wrote'[v] = wrote[v]
               /\ \A x \in Symbols \ {s} : wrote'[r][x] = wrote[r][x]
               /\ wrote'[r][s] = w
    <3>1. wrote'[r] = [wrote[r] EXCEPT ![s] = w] /\ wrote[r] \in [Symbols -> Untouched .. MaxLevel]
      BY <2>1, <2>3
    <3>2. wrote'[r][s] = w
      BY <3>1
    <3>3. QED
      BY <2>1, <2>3, <3>1, <3>2
  <2>4. QED
    BY <1>3, <2>2, <2>3
<1> DEFINE added == IF s \in Reported(r) THEN ReportedEvents(r, s) ELSE OrphanEvents(r, s)
<1>5. s \in Reported(r) => RowEvent(s, fresh[r][s], now[r]) \in added
  BY DEF RowEvent, ReportedEvents
<1>6. added \subseteq Event
  <2>1. DetectDrift(fresh[r][s], prior[r][s]) \subseteq Kinds
    BY DEF DetectDrift, Kinds
  <2>2. CASE s \in Reported(r)
    <3>1. fresh[r][s] \in Levels
      BY <1>1, <1>2, <2>2 DEF Levels
    <3>2. DetectDrift(fresh[r][s], prior[r][s]) \cup {"reconciled"} \subseteq Kinds
      BY <2>1 DEF Kinds
    <3>3. QED
      BY <1>1, <2>2, <3>1, <3>2 DEF ReportedEvents, Event
  <2>3. CASE s \notin Reported(r)
    <3>1. prior[r][s] \in Levels
      BY <1>1, <1>2, <2>3 DEF Written, Levels
    <3>2. QED
      BY <1>1, <2>3, <3>1 DEF OrphanEvents, Event, Kinds
  <2>4. QED
    BY <2>2, <2>3
<1>7. todo' = [todo EXCEPT ![r] = @ \ {s}] /\ events' = [events EXCEPT ![r] = @ \cup added]
  BY DEF Done
<1> HIDE DEF added
<1>8. Types'
  BY <1>4, <1>6, <1>7 DEF Types, TypeOK, Phases
<1>9. /\ \A v \in Refreshers \ {r} : pc'[v] = pc[v] /\ todo'[v] = todo[v] /\ events'[v] = events[v]
      /\ pc'[r] = "writing" /\ todo'[r] = todo[r] \ {s} /\ events'[r] = events[r] \cup added
  BY <1>7 DEF Types, TypeOK
<1>10. Timely' /\ RowsHaveEvents'
  BY <1>9 DEF Timely, RowsHaveEvents
<1>11. Written'
  <2>1. ASSUME NEW v \in Refreshers \ {r} PROVE Written!(v)'
    BY <1>4, <1>9 DEF Written
  <2>2. ASSUME NEW x \in Symbols, wrote'[r][x] \notin {Untouched, Deleted}
        PROVE  wrote'[r][x] = fresh[r][x] /\ RowEvent(x, fresh[r][x], now[r]) \in events'[r]
    <3>1. CASE wrote'[r][x] = wrote[r][x]
      BY <1>9, <2>2, <3>1 DEF Written
    <3>2. CASE x = s /\ wrote'[r][s] = fresh[r][s] /\ fresh[r][s] # 0
      BY <1>2, <1>5, <1>9, <3>2
    <3>3. QED
      BY <1>4, <2>2, <3>1, <3>2
  <2>3. QED
    BY <1>9, <2>1, <2>2 DEF Written, RowEvent
<1>12. QED
  BY <1>4, <1>8, <1>9, <1>10, <1>11

LEMMA WriteStep ==
    ASSUME RefreshIInv, NEW r \in Refreshers, NEW s \in Symbols, Write(r, s) PROVE RefreshIInv'
<1> USE DEF RefreshIInv
<1>1. UNCHANGED <<broker, trades, account, local, outbox, clock, pc, key, now, fresh, prior,
                  newAccount, seen, disturbed>>
      /\ pc[r] = "writing" /\ s \in todo[r] /\ WriteEffect(r, s) /\ Done(r, s)
  BY DEF Write, MayWrite
<1>2. pc' = [pc EXCEPT ![r] = "writing"]
  BY <1>1 DEF Types, TypeOK
<1>3. seen' \in [Refreshers -> [symbol : Symbols, row : Rows \cup {NoRow}] \cup {NoRow}]
  BY <1>1 DEF Types, TypeOK
<1>4. /\ Types' /\ Timely' /\ RowsHaveEvents' /\ Written'
      /\ \A v \in Refreshers \ {r} : pc'[v] = pc[v] /\ todo'[v] = todo[v] /\ wrote'[v] = wrote[v]
      /\ pc'[r] = "writing" /\ todo'[r] = todo[r] \ {s}
      /\ \A x \in Symbols \ {s} : wrote'[r][x] = wrote[r][x]
  BY <1>1, <1>2, <1>3, Handled
<1>5. ASSUME ~disturbed[r], key[r] = "hash" PROVE wrote'[r][s] = Outcome(r, s)
  <2>1. prior[r][s] = local[s].level
    BY <1>1, <1>5 DEF Alone
  <2>2. s \in Reported(r) <=> fresh[r][s] # 0
    BY DEF Reported
  <2>3. local[s] # NoRow <=> local[s].level # 0
    BY RowFacts
  <2>4. fresh[r][s] # 0 \/ local[s].level # 0
    BY <1>1, <2>1 DEF Written
  <2>5. QED
    BY <1>1, <2>2, <2>3, <2>4 DEF WriteEffect, Outcome, Types, TypeOK
<1>6. Alone'
  BY <1>1, <1>4, <1>5 DEF Alone, Outcome
<1>7. QED
  BY <1>4, <1>6

LEMMA UnblockStep ==
    ASSUME RefreshIInv, NEW r \in Refreshers, Unblock(r) PROVE RefreshIInv'
<1> USE DEF RefreshIInv
<1> DEFINE s == seen[r].symbol
           replaced == local[s] \notin {seen[r].row, NoRow}
<1>1. UNCHANGED <<broker, trades, account, local, outbox, clock, key, now, fresh, prior,
                  newAccount, disturbed>>
      /\ pc[r] = "blocked" /\ pc' = [pc EXCEPT ![r] = "writing"] /\ Done(r, s)
      /\ seen' = [seen EXCEPT ![r] = NoRow]
      /\ IF replaced THEN s \in Orphans(r) /\ UNCHANGED wrote ELSE WriteEffect(r, s)
  BY DEF Unblock
<1>2. s \in Symbols /\ s \in todo[r]
  BY <1>1 DEF Written, Target
<1> HIDE DEF s
<1>3. seen' \in [Refreshers -> [symbol : Symbols, row : Rows \cup {NoRow}] \cup {NoRow}]
      /\ \A v \in Refreshers \ {r} : seen'[v] = seen[v]
  BY <1>1 DEF Types, TypeOK
<1>4. s \in Orphans(r) => s \notin Reported(r)
  BY DEF Orphans, Reported
<1>5. /\ Types' /\ Timely' /\ RowsHaveEvents' /\ Written'
      /\ \A v \in Refreshers \ {r} : pc'[v] = pc[v] /\ todo'[v] = todo[v] /\ wrote'[v] = wrote[v]
      /\ pc'[r] = "writing" /\ todo'[r] = todo[r] \ {s}
      /\ \A x \in Symbols \ {s} : wrote'[r][x] = wrote[r][x]
  BY <1>1, <1>2, <1>3, <1>4, Handled
<1>6. ASSUME ~disturbed[r], key[r] = "hash" PROVE wrote'[r][s] = Outcome(r, s)
  <2>1. prior[r][s] = local[s].level /\ ~replaced
    BY <1>1, <1>2, <1>6 DEF Alone, s
  <2>2. s \in Reported(r) <=> fresh[r][s] # 0
    BY <1>2 DEF Reported
  <2>3. local[s] # NoRow <=> local[s].level # 0
    BY <1>2, RowFacts
  <2>4. fresh[r][s] # 0 \/ local[s].level # 0
    BY <1>2, <2>1 DEF Written
  <2>5. QED
    BY <1>1, <1>2, <2>1, <2>2, <2>3, <2>4 DEF WriteEffect, Outcome, Types, TypeOK
<1>7. Alone'
  BY <1>1, <1>3, <1>5, <1>6 DEF Alone, Outcome
<1>8. QED
  BY <1>5, <1>7

-----------------------------------------------------------------------------

\* The request's variables are back to nothing.
LEMMA ResetFacts ==
    ASSUME Types, NEW r \in Refreshers, Reset(r)
    PROVE  /\ pc' \in [Refreshers -> Phases] /\ key' \in [Refreshers -> {"hash", "alias"}]
           /\ now' \in [Refreshers -> 0 .. MaxRefreshes]
           /\ fresh' \in [Refreshers -> [Symbols -> 0 .. MaxLevel]]
           /\ prior' \in [Refreshers -> [Symbols -> 0 .. MaxLevel]]
           /\ todo' \in [Refreshers -> SUBSET Symbols]
           /\ wrote' \in [Refreshers -> [Symbols -> Untouched .. MaxLevel]]
           /\ newAccount' \in [Refreshers -> BOOLEAN]
           /\ events' \in [Refreshers -> SUBSET Event]
           /\ seen' \in [Refreshers -> [symbol : Symbols, row : Rows \cup {NoRow}] \cup {NoRow}]
           /\ pc'[r] = "idle" /\ wrote'[r] = CleanTx /\ todo'[r] = {}
           /\ \A v \in Refreshers \ {r} :
                /\ pc'[v] = pc[v] /\ key'[v] = key[v] /\ now'[v] = now[v] /\ fresh'[v] = fresh[v]
                /\ prior'[v] = prior[v] /\ todo'[v] = todo[v] /\ wrote'[v] = wrote[v]
                /\ events'[v] = events[v] /\ seen'[v] = seen[v]
<1>1. Nothing \in [Symbols -> 0 .. MaxLevel] /\ CleanTx \in [Symbols -> Untouched .. MaxLevel]
  BY DEF Nothing, CleanTx, Untouched
<1>2. newAccount' \in [Refreshers -> BOOLEAN]
  BY Zenon DEF Reset, Types, TypeOK
<1>3. QED
  BY <1>1, <1>2 DEF Reset, Types, TypeOK, Phases

\* A request that is over has written nothing; the others are as they were.
LEMMA ResetWritten ==
    ASSUME Types, Written, NEW r \in Refreshers, Reset(r) PROVE Written'
<1>1. ASSUME NEW v \in Refreshers \ {r} PROVE Written!(v)'
  <2>1. Written!(v)
    BY DEF Written
  <2>2. pc'[v] = pc[v] /\ key'[v] = key[v] /\ now'[v] = now[v] /\ fresh'[v] = fresh[v]
        /\ prior'[v] = prior[v] /\ todo'[v] = todo[v] /\ wrote'[v] = wrote[v]
        /\ events'[v] = events[v] /\ seen'[v] = seen[v]
    BY ResetFacts
  <2>3. QED
    BY <2>1, <2>2
<1>2. pc'[r] = "idle" /\ wrote'[r] = CleanTx /\ todo'[r] = {}
  BY ResetFacts
<1>3. \A s \in Symbols : CleanTx[s] = Untouched
  BY DEF CleanTx
<1>4. QED
  BY <1>1, <1>2, <1>3 DEF Written

LEMMA FailStep ==
    ASSUME RefreshIInv, NEW r \in Refreshers, Fail(r) PROVE RefreshIInv'
<1> USE DEF RefreshIInv
<1>1. Reset(r) /\ UNCHANGED <<broker, trades, account, local, outbox, clock, disturbed>>
  BY DEF Fail
<1>2. Types'
  BY <1>1, ResetFacts DEF Types, TypeOK
<1>3. Timely' /\ RowsHaveEvents'
  BY <1>1, ResetFacts DEF Timely, RowsHaveEvents
<1>4. Written'
  BY <1>1, ResetWritten
<1>5. Alone'
  <2>1. ASSUME NEW v \in Refreshers \ {r} PROVE Alone!(v)'
    <3>1. Alone!(v)
      BY DEF Alone
    <3>2. pc'[v] = pc[v] /\ key'[v] = key[v] /\ now'[v] = now[v] /\ fresh'[v] = fresh[v]
          /\ prior'[v] = prior[v] /\ todo'[v] = todo[v] /\ wrote'[v] = wrote[v] /\ seen'[v] = seen[v]
      BY <1>1, ResetFacts
    <3>3. QED
      BY <1>1, <3>1, <3>2 DEF Outcome
  <2>2. pc'[r] = "idle"
    BY <1>1, ResetFacts
  <2>3. QED
    BY <2>1, <2>2 DEF Alone
<1>6. QED
  BY <1>2, <1>3, <1>4, <1>5

\* The rows a commit leaves, and their events.
LEMMA CommitStep ==
    ASSUME RefreshIInv, NEW r \in Refreshers, Commit(r) PROVE RefreshIInv'
<1> USE DEF RefreshIInv
<1>1. Reset(r) /\ UNCHANGED <<broker, trades, clock>> /\ pc[r] = "writing" /\ todo[r] = {}
      /\ outbox' = outbox \cup events[r]
      /\ account' = (account \/ newAccount[r])
      /\ disturbed' = [v \in Refreshers |-> disturbed[v] \/ (v # r /\ pc[v] # "idle")]
  BY DEF Commit, CommittedEvents
<1>2. local' = [s \in Symbols |->
            CASE wrote[r][s] = Untouched -> local[s]
              [] wrote[r][s] = Deleted -> NoRow
              [] OTHER -> [level |-> wrote[r][s], asOf |-> now[r]]]
  BY DEF Commit
<1>3. now[r] \in 1 .. clock /\ clock \in 0 .. MaxRefreshes
  BY <1>1 DEF Timely, Types, TypeOK
<1>4. ASSUME NEW s \in Symbols
      PROVE  /\ local'[s] = local[s] \/ local'[s] = NoRow
                \/ (local'[s] = [level |-> wrote[r][s], asOf |-> now[r]] /\ wrote[r][s] \in Levels
                    /\ RowEvent(s, wrote[r][s], now[r]) \in events[r])
             /\ local'[s] \in Rows \cup {NoRow} /\ local'[s].asOf <= clock
  <2>1. local[s] \in Rows \cup {NoRow} /\ local[s].asOf <= clock /\ NoRow.asOf = 0
    BY DEF Types, TypeOK, Timely, NoRow
  <2>2. CASE wrote[r][s] \in {Untouched, Deleted}
    BY <1>2, <1>3, <2>1, <2>2 DEF Untouched, Deleted
  <2>3. CASE wrote[r][s] \notin {Untouched, Deleted}
    <3>1. wrote[r][s] \in Levels
      <4>1. wrote[r][s] = fresh[r][s] /\ fresh[r][s] \in 0 .. MaxLevel
        BY <2>3 DEF Written, Types, TypeOK
      <4>2. QED
        BY <2>3, <4>1 DEF Levels, Deleted
    <3>2. RowEvent(s, wrote[r][s], now[r]) \in events[r]
      BY <2>3 DEF Written
    <3>3. local'[s] = [level |-> wrote[r][s], asOf |-> now[r]]
      BY <1>2, <2>3
    <3>4. QED
      BY <1>3, <3>1, <3>2, <3>3 DEF Rows
  <2>4. QED
    BY <2>2, <2>3
<1>5. Types'
  <2>1. local' \in [Symbols -> Rows \cup {NoRow}]
    BY <1>2, <1>4
  <2>2. account' \in BOOLEAN
    BY <1>1, Zenon DEF Types, TypeOK
  <2>3. disturbed' \in [Refreshers -> BOOLEAN]
    BY <1>1, Zenon DEF Types, TypeOK
  <2>4. outbox' \subseteq Event
    BY <1>1 DEF Types, TypeOK
  <2>5. QED
    BY <1>1, <2>1, <2>2, <2>3, <2>4, ResetFacts DEF Types, TypeOK
<1>6. Timely'
  BY <1>1, <1>4, ResetFacts DEF Timely
<1>7. RowsHaveEvents'
  <2> SUFFICES ASSUME NEW s \in Symbols, local'[s] # NoRow
               PROVE  RowEvent(s, local'[s].level, local'[s].asOf) \in outbox'
    BY DEF RowsHaveEvents, RowEvent
  <2>1. CASE local'[s] = local[s]
    BY <1>1, <2>1 DEF RowsHaveEvents, RowEvent
  <2>2. CASE local'[s] = [level |-> wrote[r][s], asOf |-> now[r]]
             /\ RowEvent(s, wrote[r][s], now[r]) \in events[r]
    BY <1>1, <2>2
  <2>3. QED
    BY <1>4, <2>1, <2>2
<1>8. Written'
  BY <1>1, ResetWritten
<1>9. Alone'
  <2>1. \A v \in Refreshers : ~disturbed'[v] => pc'[v] = "idle"
    BY <1>1, ResetFacts
  <2>2. QED
    BY <2>1 DEF Alone
<1>10. QED
  BY <1>5, <1>6, <1>7, <1>8, <1>9

LEMMA RefreshNextIInv == RefreshIInv /\ [Next]_vars => RefreshIInv'
<1> SUFFICES ASSUME RefreshIInv, [Next]_vars PROVE RefreshIInv'
  OBVIOUS
<1>1. CASE Trade
  BY <1>1, TradeStep
<1>2. ASSUME NEW r \in Refreshers, Start(r) PROVE RefreshIInv'
  BY <1>2, StartStep
<1>3. ASSUME NEW r \in Refreshers, ReadBroker(r) PROVE RefreshIInv'
  BY <1>3, ReadBrokerStep
<1>4. ASSUME NEW r \in Refreshers, Load(r) PROVE RefreshIInv'
  BY <1>4, LoadStep
<1>5. ASSUME NEW r \in Refreshers, NEW s \in Symbols, Write(r, s) PROVE RefreshIInv'
  BY <1>5, WriteStep
<1>6. ASSUME NEW r \in Refreshers, NEW s \in Symbols, Block(r, s) PROVE RefreshIInv'
  BY <1>6, BlockStep
<1>7. ASSUME NEW r \in Refreshers, Unblock(r) PROVE RefreshIInv'
  BY <1>7, UnblockStep
<1>8. ASSUME NEW r \in Refreshers, Commit(r) PROVE RefreshIInv'
  BY <1>8, CommitStep
<1>9. ASSUME NEW r \in Refreshers, Fail(r) PROVE RefreshIInv'
  BY <1>9, FailStep
<1>10. CASE UNCHANGED vars
  BY <1>10 DEF vars, reqVars, RefreshIInv, Types, TypeOK, Timely, Written, RowsHaveEvents, Alone,
               Outcome
<1>11. QED
  BY <1>1, <1>2, <1>3, <1>4, <1>5, <1>6, <1>7, <1>8, <1>9, <1>10 DEF Next

-----------------------------------------------------------------------------

\* The table, the requests and their transactions stay in their types.
THEOREM RefreshTypeCorrect == Spec => []TypeOK
<1>1. RefreshIInv => TypeOK
  BY DEF RefreshIInv, Types
<1>2. QED
  BY <1>1, RefreshInitIInv, RefreshNextIInv, PTL DEF Spec

\* Every stored position has the event of the refresh that stored it.
THEOREM PositionsAreReconciled == Spec => []RowsHaveEvents
<1>1. RefreshIInv => RowsHaveEvents
  BY DEF RefreshIInv
<1>2. QED
  BY <1>1, RefreshInitIInv, RefreshNextIInv, PTL DEF Spec

\* A request that commits, undisturbed, leaves of each symbol what it read.
LEMMA AloneCommit ==
    ASSUME RefreshIInv, Next, NEW r \in Refreshers, CommitsAlone(r)
    PROVE  /\ Commit(r)
           /\ \A s \in Symbols :
                /\ local'[s].level = fresh[r][s] /\ fresh[r][s] \in 0 .. MaxLevel
                /\ local'[s] # NoRow => local'[s].asOf > local[s].asOf
                /\ local'[s] = NoRow <=> fresh[r][s] = 0
                /\ prior[r][s] = local[s].level
<1> USE DEF RefreshIInv
<1>1. pc[r] = "writing" /\ pc'[r] = "idle" /\ outbox' # outbox /\ ~disturbed[r] /\ key[r] = "hash"
  BY DEF CommitsAlone
<1>2. Commit(r)
  <2>1. PICK v \in Refreshers : Commit(v)
    BY <1>1 DEF Next, Trade, Start, ReadBroker, Load, Write, Block, Unblock, Fail
  <2>2. v = r
    BY <1>1, <2>1, ResetFacts DEF Commit
  <2>3. QED
    BY <2>1, <2>2
<1>3. ASSUME NEW s \in Symbols
      PROVE  /\ local'[s].level = fresh[r][s] /\ fresh[r][s] \in 0 .. MaxLevel
             /\ local'[s] # NoRow => local'[s].asOf > local[s].asOf
             /\ local'[s] = NoRow <=> fresh[r][s] = 0
             /\ prior[r][s] = local[s].level
  <2>1. wrote[r][s] = Outcome(r, s) /\ local[s].asOf < now[r] /\ prior[r][s] = local[s].level
    BY <1>1, <1>2 DEF Commit, Alone
  <2>2. /\ wrote[r][s] = Untouched => local'[s] = local[s]
        /\ wrote[r][s] = Deleted => local'[s] = NoRow
        /\ wrote[r][s] \notin {Untouched, Deleted} => local'[s] = [level |-> wrote[r][s], asOf |-> now[r]]
    BY <1>2 DEF Commit, Untouched, Deleted
  <2>3. fresh[r][s] \in 0 .. MaxLevel
    BY DEF Types, TypeOK
  <2>4. CASE fresh[r][s] # 0
    BY <2>1, <2>2, <2>3, <2>4 DEF Outcome, Untouched, Deleted, NoRow
  <2>5. CASE fresh[r][s] = 0
    <3>1. local'[s] = NoRow
      BY <2>1, <2>2, <2>5, RowFacts DEF Outcome, Untouched, Deleted
    <3>2. QED
      BY <2>1, <2>5, <3>1 DEF NoRow
  <2>6. QED
    BY <2>4, <2>5
<1>4. QED
  BY <1>2, <1>3

\* A refresh that no other commit came across leaves what the broker reported.
THEOREM RefreshMatchesBroker == Spec => AloneMatchesBroker
<1> DEFINE Matches == \A r \in Refreshers : CommitsAlone(r) =>
        \A s \in Symbols :
            /\ local'[s].level = fresh[r][s]
            /\ local'[s] # NoRow => local'[s].asOf > local[s].asOf
<1>1. RefreshIInv /\ [Next]_vars => [Matches]_vars
  <2> SUFFICES ASSUME RefreshIInv, Next, NEW r \in Refreshers, CommitsAlone(r), NEW s \in Symbols
               PROVE  /\ local'[s].level = fresh[r][s]
                      /\ local'[s] # NoRow => local'[s].asOf > local[s].asOf
    BY DEF vars
  <2>1. QED
    BY AloneCommit
<1>2. QED
  BY <1>1, RefreshInitIInv, RefreshNextIInv, PTL DEF Spec, AloneMatchesBroker

-----------------------------------------------------------------------------
(***************************************************************************)
(* What a refresh announces.                                               *)
(***************************************************************************)

\* The events a refresh owes for a symbol, and those it has collected for it.
Owed(r, s) ==
    IF fresh[r][s] # 0 THEN ReportedEvents(r, s)
    ELSE IF prior[r][s] # 0 THEN OrphanEvents(r, s)
    ELSE {}
Told(r, s) == {e \in events[r] : e.symbol = s}

\* A transaction has collected what it owes for the symbols it is through with.
ToldSoFar ==
    \A r \in Refreshers :
        /\ pc[r] \in {"idle", "started", "read"} => events[r] = {}
        /\ pc[r] \in {"writing", "blocked"} =>
            \A s \in Symbols : Told(r, s) = IF s \in todo[r] THEN {} ELSE Owed(r, s)

\* An open request's time stamp is its own, and so far in no committed event.
Stamped ==
    /\ \A r \in Refreshers : \A e \in events[r] : e.at = now[r]
    /\ \A r \in Refreshers : pc[r] # "idle" => \A e \in outbox : e.at # now[r]
    /\ \A r, v \in Refreshers :
        pc[r] # "idle" /\ pc[v] # "idle" /\ now[r] = now[v] => r = v
    /\ \A e \in outbox : e.at <= clock

\* Inductive, given RefreshIInv.
AnnounceIInv == ToldSoFar /\ Stamped

LEMMA AnnounceInitIInv == Init => AnnounceIInv
  BY DEF Init, AnnounceIInv, ToldSoFar, Stamped

LEMMA OwedFacts ==
    ASSUME NEW r \in Refreshers, NEW s \in Symbols
    PROVE  \A e \in Owed(r, s) : e.symbol = s /\ e.at = now[r]
BY DEF Owed, ReportedEvents, OrphanEvents

\* A symbol that is dealt with is told what it is owed.
LEMMA DoneTells ==
    ASSUME RefreshIInv, AnnounceIInv, NEW r \in Refreshers, NEW s \in Symbols,
           pc[r] \in {"writing", "blocked"}, s \in todo[r], Done(r, s),
           pc' = [pc EXCEPT ![r] = "writing"], UNCHANGED <<outbox, clock, now, fresh, prior>>
    PROVE  AnnounceIInv'
<1> USE DEF RefreshIInv, AnnounceIInv
<1>1. todo'[r] = todo[r] \ {s} /\ \A v \in Refreshers \ {r} : todo'[v] = todo[v]
  BY DEF Done, Types, TypeOK
<1>2. events'[r] = events[r] \cup Owed(r, s) /\ \A v \in Refreshers \ {r} : events'[v] = events[v]
  <2>1. fresh[r][s] # 0 \/ prior[r][s] # 0
    BY DEF Written
  <2>2. s \in Reported(r) <=> fresh[r][s] # 0
    BY DEF Reported
  <2>3. QED
    BY <2>1, <2>2 DEF Done, Owed, Types
<1>3. pc'[r] = "writing" /\ \A v \in Refreshers \ {r} : pc'[v] = pc[v]
  BY DEF Types, TypeOK
<1>4. \A v \in Refreshers, x \in Symbols : Owed(v, x)' = Owed(v, x)
  BY DEF Owed, ReportedEvents, OrphanEvents
<1>5. ASSUME NEW x \in Symbols
      PROVE  Told(r, x)' = IF x \in todo'[r] THEN {} ELSE Owed(r, x)
  <2>1. Told(r, x) = IF x \in todo[r] THEN {} ELSE Owed(r, x)
    BY DEF ToldSoFar
  <2>2. CASE x = s
    <3>1. Told(r, x) = {} /\ x \notin todo'[r]
      BY <1>1, <2>1, <2>2
    <3>2. Told(r, x)' = Owed(r, x)
      BY <1>2, <2>2, <3>1, OwedFacts DEF Told
    <3>3. QED
      BY <3>1, <3>2
  <2>3. CASE x # s
    <3>1. Told(r, x)' = Told(r, x)
      BY <1>2, <2>3, OwedFacts DEF Told
    <3>2. QED
      BY <1>1, <2>1, <2>3, <3>1
  <2>4. QED
    BY <2>2, <2>3
<1>6. ToldSoFar'
  <2>1. ASSUME NEW v \in Refreshers \ {r} PROVE ToldSoFar!(v)'
    <3>1. ToldSoFar!(v)
      BY DEF ToldSoFar
    <3>2. QED
      BY <1>1, <1>2, <1>3, <1>4, <3>1 DEF Told
  <2>2. QED
    BY <1>3, <1>4, <1>5, <2>1 DEF ToldSoFar
<1>7. Stamped'
  <2>1. \A v \in Refreshers : pc'[v] # "idle" => pc[v] # "idle"
    BY <1>3
  <2>2. \A e \in events'[r] : e.at = now[r]
    BY <1>2, OwedFacts DEF Stamped
  <2>3. QED
    BY <1>2, <2>1, <2>2 DEF Stamped
<1>8. QED
  BY <1>6, <1>7

\* A new request has a new time stamp; one that is over has nothing collected.
LEMMA AnnounceStartStep ==
    ASSUME RefreshIInv, AnnounceIInv, NEW r \in Refreshers, Start(r) PROVE AnnounceIInv'
<1> USE DEF RefreshIInv, AnnounceIInv
<1>1. /\ UNCHANGED <<outbox, fresh, prior, todo, events>> /\ pc[r] = "idle" /\ clock' = clock + 1
      /\ pc'[r] = "started" /\ now'[r] = clock + 1 /\ clock \in Nat
      /\ \A v \in Refreshers \ {r} : pc'[v] = pc[v] /\ now'[v] = now[v]
  BY DEF Start, Types, TypeOK
<1>2. events[r] = {}
  BY <1>1 DEF ToldSoFar
<1>3. ToldSoFar'
  <2>1. ASSUME NEW v \in Refreshers \ {r} PROVE ToldSoFar!(v)'
    <3>1. ToldSoFar!(v)
      BY DEF ToldSoFar
    <3>2. QED
      BY <1>1, <3>1 DEF Told, Owed, ReportedEvents, OrphanEvents
  <2>2. QED
    BY <1>1, <1>2, <2>1 DEF ToldSoFar
<1>4. Stamped'
  <2>1. \A e \in outbox : e.at \in Nat /\ e.at <= clock
    BY DEF Stamped, Types, TypeOK, Event
  <2>2. \A v \in Refreshers \ {r} : pc[v] # "idle" => now[v] \in 1 .. clock
    BY DEF Timely
  <2>3. QED
    BY <1>1, <1>2, <2>1, <2>2 DEF Stamped
<1>5. QED
  BY <1>3, <1>4

LEMMA AnnounceResetStep ==
    ASSUME RefreshIInv, AnnounceIInv, NEW r \in Refreshers, Reset(r), UNCHANGED clock,
           pc[r] # "idle", outbox' \in {outbox, outbox \cup events[r]}
    PROVE  AnnounceIInv'
<1> USE DEF RefreshIInv, AnnounceIInv
<1>1. /\ pc'[r] = "idle" /\ events'[r] = {}
      /\ \A v \in Refreshers \ {r} :
            /\ pc'[v] = pc[v] /\ now'[v] = now[v] /\ fresh'[v] = fresh[v]
            /\ prior'[v] = prior[v] /\ todo'[v] = todo[v] /\ events'[v] = events[v]
  BY ResetFacts DEF Reset, Types
<1>2. ToldSoFar'
  <2>1. ASSUME NEW v \in Refreshers \ {r} PROVE ToldSoFar!(v)'
    <3>1. ToldSoFar!(v)
      BY DEF ToldSoFar
    <3>2. QED
      BY <1>1, <3>1 DEF Told, Owed, ReportedEvents, OrphanEvents
  <2>2. QED
    BY <1>1, <2>1 DEF ToldSoFar
<1>3. Stamped'
  <2>1. \A e \in outbox' : e \in outbox \/ (e \in events[r] /\ e.at = now[r])
    BY DEF Stamped
  <2>2. now[r] <= clock
    BY DEF Timely
  <2>3. QED
    BY <1>1, <2>1, <2>2 DEF Stamped
<1>4. QED
  BY <1>2, <1>3

LEMMA AnnounceNextIInv == RefreshIInv /\ AnnounceIInv /\ [Next]_vars => AnnounceIInv'
<1> SUFFICES ASSUME RefreshIInv, AnnounceIInv, [Next]_vars PROVE AnnounceIInv'
  OBVIOUS
<1>1. CASE Trade \/ UNCHANGED vars
  BY <1>1 DEF Trade, vars, reqVars, AnnounceIInv, ToldSoFar, Stamped, Told, Owed, ReportedEvents,
              OrphanEvents
<1>2. ASSUME NEW r \in Refreshers, Start(r) PROVE AnnounceIInv'
  BY <1>2, AnnounceStartStep
<1>3. ASSUME NEW r \in Refreshers, ReadBroker(r) \/ Load(r) PROVE AnnounceIInv'
  <2>1. /\ UNCHANGED <<outbox, clock, now, events>> /\ pc[r] \in {"started", "read"}
        /\ \A v \in Refreshers \ {r} : pc'[v] = pc[v] /\ fresh'[v] = fresh[v]
                /\ prior'[v] = prior[v] /\ todo'[v] = todo[v]
    BY <1>3 DEF ReadBroker, Load, RefreshIInv, Types, TypeOK
  <2>2. events[r] = {}
    BY <2>1 DEF AnnounceIInv, ToldSoFar
  <2>3. \/ pc'[r] = "read"
        \/ pc'[r] = "writing" /\ \A s \in Symbols \ todo'[r] : fresh'[r][s] = 0 /\ prior'[r][s] = 0
    BY <1>3 DEF ReadBroker, Load, RefreshIInv, Types, TypeOK
  <2>4. ToldSoFar'
    <3>1. ASSUME NEW v \in Refreshers \ {r} PROVE ToldSoFar!(v)'
      <4>1. ToldSoFar!(v)
        BY DEF AnnounceIInv, ToldSoFar
      <4>2. QED
        BY <2>1, <4>1 DEF Told, Owed, ReportedEvents, OrphanEvents
    <3>2. \A s \in Symbols : Told(r, s)' = {}
      BY <2>1, <2>2 DEF Told
    <3>3. \A s \in Symbols \ todo'[r] : pc'[r] = "writing" => Owed(r, s)' = {}
      BY <2>3 DEF Owed
    <3>4. QED
      BY <2>1, <2>2, <2>3, <3>1, <3>2, <3>3 DEF ToldSoFar
  <2>5. Stamped'
    <3>1. \A v \in Refreshers : pc'[v] # "idle" => pc[v] # "idle"
      BY <2>1
    <3>2. QED
      BY <2>1, <3>1 DEF AnnounceIInv, Stamped
  <2>6. QED
    BY <2>4, <2>5 DEF AnnounceIInv
<1>4. ASSUME NEW r \in Refreshers, NEW s \in Symbols, Write(r, s) PROVE AnnounceIInv'
  <2>1. pc' = [pc EXCEPT ![r] = "writing"]
    BY <1>4 DEF Write, RefreshIInv, Types, TypeOK
  <2>2. QED
    BY <1>4, <2>1, DoneTells DEF Write, MayWrite
<1>5. ASSUME NEW r \in Refreshers, NEW s \in Symbols, Block(r, s) PROVE AnnounceIInv'
  <2>1. /\ UNCHANGED <<outbox, clock, now, fresh, prior, todo, events>>
        /\ pc[r] = "writing" /\ pc'[r] = "blocked" /\ \A v \in Refreshers \ {r} : pc'[v] = pc[v]
    BY <1>5 DEF Block, RefreshIInv, Types, TypeOK
  <2>2. \A v \in Refreshers : pc'[v] # "idle" => pc[v] # "idle"
    BY <2>1
  <2>3. QED
    BY <2>1, <2>2 DEF AnnounceIInv, ToldSoFar, Stamped, Told, Owed, ReportedEvents, OrphanEvents
<1>6. ASSUME NEW r \in Refreshers, Unblock(r) PROVE AnnounceIInv'
  <2>1. seen[r].symbol \in Symbols /\ seen[r].symbol \in todo[r]
    BY <1>6 DEF Unblock, RefreshIInv, Written, Target
  <2>2. QED
    BY <1>6, <2>1, DoneTells DEF Unblock
<1>7. ASSUME NEW r \in Refreshers, Commit(r) PROVE AnnounceIInv'
  BY <1>7, AnnounceResetStep DEF Commit, CommittedEvents
<1>8. ASSUME NEW r \in Refreshers, Fail(r) PROVE AnnounceIInv'
  BY <1>8, AnnounceResetStep DEF Fail
<1>9. QED
  BY <1>1, <1>2, <1>3, <1>4, <1>5, <1>6, <1>7, <1>8 DEF Next

\* What an undisturbed refresh owes besides the reconciliation is one drift event
\* for each material change, and the CRITICAL one if and only if the row is gone.
LEMMA OwedIsDrift ==
    ASSUME NEW r \in Refreshers, NEW s \in Symbols, NEW new \in 0 .. MaxLevel,
           NEW old \in 0 .. MaxLevel, fresh[r][s] = new, prior[r][s] = old
    PROVE  LET drift == {e \in Owed(r, s) : e.kind # "reconciled"} IN
           /\ Cardinality(drift) = IF Material(old, new) THEN 1 ELSE 0
           /\ \A e \in drift : e.kind = "missing_broker" <=> new = 0
<1> DEFINE drift == {e \in Owed(r, s) : e.kind # "reconciled"}
           Ev(k, l) == [kind |-> k, symbol |-> s, level |-> l, at |-> now[r]]
<1>1. \A k, l : Ev(k, l).kind = k
  OBVIOUS
<1>2. Cardinality({}) = 0 /\ \A e : Cardinality({e}) = 1
  BY FS_EmptySet, FS_Singleton
<1>3. CASE new = 0 /\ old = 0
  <2>1. drift = {} /\ ~Material(old, new)
    BY <1>3, RefreshAssumption DEF Owed, Material, Distance
  <2>2. QED
    BY <1>2, <2>1
<1>4. CASE new = 0 /\ old # 0
  <2>1. drift = {Ev("missing_broker", old)} /\ Material(old, new)
    BY <1>1, <1>4 DEF Owed, OrphanEvents, Material
  <2>2. QED
    BY <1>1, <1>2, <1>4, <2>1
<1>5. CASE new # 0
  <2>1. drift = {Ev(k, new) : k \in DetectDrift(new, old)}
    BY <1>1, <1>5 DEF Owed, ReportedEvents, DetectDrift
  <2>2. CASE DetectDrift(new, old) = {}
    <3>1. drift = {} /\ ~Material(old, new)
      BY <1>5, <2>1, <2>2 DEF DetectDrift, Material, Distance
    <3>2. QED
      BY <1>2, <3>1
  <2>3. CASE DetectDrift(new, old) # {}
    <3>1. PICK k \in {"missing_local", "moved"} : DetectDrift(new, old) = {k}
      BY <2>3 DEF DetectDrift
    <3>2. drift = {Ev(k, new)}
      BY <2>1, <3>1
    <3>3. Material(old, new)
      BY <1>5, <2>3 DEF DetectDrift, Material, Distance
    <3>4. QED
      BY <1>1, <1>2, <1>5, <3>1, <3>2, <3>3
  <2>4. QED
    BY <2>2, <2>3
<1>6. QED
  BY <1>3, <1>4, <1>5

\* A refresh that no other commit came across announces each material change once
\* and nothing else, for any number of symbols, levels and requests: refresh_positions.py
\* compares with rows that are still there when it commits.
THEOREM DriftIsAnnounced == Spec => AloneAnnouncesDrift
<1> DEFINE Announces == \A r \in Refreshers : CommitsAlone(r) =>
        \A s \in Symbols :
            /\ Cardinality(DriftAdded(s)) =
                   IF Material(local[s].level, local'[s].level) THEN 1 ELSE 0
            /\ \A e \in DriftAdded(s) :
                   e.kind = "missing_broker" <=> local'[s] = NoRow
<1>1. RefreshIInv /\ AnnounceIInv /\ [Next]_vars => [Announces]_vars
  <2> SUFFICES ASSUME RefreshIInv, AnnounceIInv, Next, NEW r \in Refreshers, CommitsAlone(r),
                      NEW s \in Symbols
               PROVE  /\ Cardinality(DriftAdded(s)) =
                            IF Material(local[s].level, local'[s].level) THEN 1 ELSE 0
                      /\ \A e \in DriftAdded(s) : e.kind = "missing_broker" <=> local'[s] = NoRow
    BY DEF vars
  <2>1. /\ Commit(r) /\ local'[s].level = fresh[r][s] /\ fresh[r][s] \in 0 .. MaxLevel
        /\ local'[s] = NoRow <=> fresh[r][s] = 0
        /\ prior[r][s] = local[s].level
    BY AloneCommit
  <2>2. outbox' \ outbox = events[r]
    BY <2>1 DEF Commit, CommittedEvents, AnnounceIInv, Stamped
  <2>3. Told(r, s) = Owed(r, s)
    BY <2>1 DEF Commit, AnnounceIInv, ToldSoFar
  <2>4. DriftAdded(s) = {e \in Owed(r, s) : e.kind # "reconciled"}
    BY <2>2, <2>3 DEF DriftAdded, Told
  <2>5. prior[r][s] \in 0 .. MaxLevel
    BY DEF RefreshIInv, Types, TypeOK
  <2>6. QED
    BY <2>1, <2>4, <2>5, OwedIsDrift
<1>2. QED
  BY <1>1, RefreshInitIInv, RefreshNextIInv, AnnounceInitIInv, AnnounceNextIInv, PTL
     DEF Spec, AloneAnnouncesDrift

-----------------------------------------------------------------------------
(***************************************************************************)
(* The unit of work.                                                       *)
(***************************************************************************)

USE UnitAssumption

\* No event is raised by two units.
RaisedOnce == \A u, v \in Units : u # v => collected[u] \cap collected[v] = {}

\* A row of a session is about an event its unit collected, is offloaded exactly
\* when the unit offloads that event, and then its object is stored already.
StagedSound ==
    \A u \in Units : \A r \in staged[u] :
        /\ r.event \in collected[u]
        /\ r.offloaded <=> Offloads(u, r.event)
        /\ r.offloaded => r.event \in blobs

\* Objects are put by units that offload their events.
BlobsSound == \A e \in blobs : \E u \in Units : e \in collected[u] /\ Offloads(u, e)

\* Unit u's transaction is in the database, whole.
Persisted(u) ==
    /\ progress[u] \in {"committed", "raised"}
    /\ staged[u] \subseteq enrolled
    /\ \A e \in collected[u] : \E r \in staged[u] : r.event = e
    /\ dirty[u] => u \in tables

\* Whatever is in the database came from such a transaction.
WholeTransactions ==
    /\ \A u \in tables : Persisted(u)
    /\ \A r \in enrolled : \E u \in Units : r \in staged[u] /\ Persisted(u)
    /\ \A u \in Units : progress[u] = "committed" => Persisted(u)

\* The inductive invariant.
UnitIInv == UnitTypeOK /\ RaisedOnce /\ StagedSound /\ BlobsSound /\ WholeTransactions

-----------------------------------------------------------------------------

LEMMA UnitInitIInv == UnitInit => UnitIInv
BY DEF UnitInit, UnitIInv, UnitTypeOK, UnitPhases, RaisedOnce, StagedSound, BlobsSound, WholeTransactions

\* A transaction that is in the database stays there whole, whatever the other
\* units do.
LEMMA PersistedStays ==
    ASSUME NEW v \in Units, Persisted(v),
           progress'[v] = progress[v], staged'[v] = staged[v], collected'[v] = collected[v],
           dirty'[v] = dirty[v], enrolled \subseteq enrolled', tables \subseteq tables'
    PROVE  Persisted(v)'
BY DEF Persisted

\* A step that leaves the database alone and changes only a unit that has not
\* committed leaves the database sound.
LEMMA DatabaseUntouched ==
    ASSUME UnitIInv, NEW u \in Units, progress[u] \in {"body", "enrolling"},
           progress'[u] # "committed",
           \A v \in Units \ {u} : /\ progress'[v] = progress[v] /\ staged'[v] = staged[v]
                                  /\ collected'[v] = collected[v] /\ dirty'[v] = dirty[v],
           enrolled' = enrolled, tables' = tables
    PROVE  WholeTransactions'
<1>1. \A v \in Units : Persisted(v) => v # u
    BY DEF Persisted
<1>2. \A v \in Units : Persisted(v) => Persisted(v)' /\ staged'[v] = staged[v]
    BY <1>1, PersistedStays
<1>3. tables \subseteq Units
    BY DEF UnitIInv, UnitTypeOK
<1> QED
    BY <1>2, <1>3 DEF UnitIInv, WholeTransactions

\* A transaction that commits, acknowledged or not, enters the database whole.
LEMMA DatabaseGrows ==
    ASSUME UnitIInv, NEW u \in Units, Ready(u), Persist(u), NEW p \in {"committed", "raised"},
           progress' = [progress EXCEPT ![u] = p], UNCHANGED <<dirty, collected, staged, blobs>>
    PROVE  UnitIInv'
<1> USE DEF UnitIInv
<1>1. UnitTypeOK'
    BY DEF UnitTypeOK, Persist, UnitPhases
<1>2. RaisedOnce' /\ StagedSound' /\ BlobsSound'
    BY DEF RaisedOnce, StagedSound, BlobsSound, Offloads
<1>3. Persisted(u)'
    BY DEF Ready, Pending, Persist, Persisted, UnitTypeOK
<1>4. \A v \in Units : Persisted(v) => Persisted(v)'
  <2> SUFFICES ASSUME NEW v \in Units, Persisted(v), v # u PROVE Persisted(v)'
    BY <1>3
  <2>1. progress'[v] = progress[v] /\ enrolled \subseteq enrolled' /\ tables \subseteq tables'
    BY DEF Persist, UnitTypeOK
  <2> QED
    BY <2>1, PersistedStays
<1>5. tables \subseteq Units /\ tables' \subseteq tables \cup {u}
    BY DEF UnitTypeOK, Persist
<1>6. WholeTransactions'
  <2>1. \A v \in tables' : Persisted(v)'
    BY <1>3, <1>4, <1>5 DEF WholeTransactions
  <2>2. ASSUME NEW r \in enrolled' PROVE \E v \in Units : r \in staged'[v] /\ Persisted(v)'
    <3>1. CASE r \in enrolled
        BY <1>4, <3>1 DEF WholeTransactions
    <3>2. CASE r \in staged[u]
        BY <1>3, <3>2
    <3> QED
        BY <2>2, <3>1, <3>2 DEF Persist
  <2>3. \A v \in Units : progress'[v] = "committed" => Persisted(v)'
    BY <1>3, <1>4 DEF WholeTransactions, UnitTypeOK
  <2> QED
    BY <2>1, <2>2, <2>3 DEF WholeTransactions
<1> QED
    BY <1>1, <1>2, <1>6

\* Every step preserves the invariant.
LEMMA UnitStepIInv == UnitIInv /\ [UnitNext]_unitVars => UnitIInv'
<1> SUFFICES ASSUME UnitIInv, [UnitNext]_unitVars PROVE UnitIInv'
    OBVIOUS
<1> USE DEF UnitIInv
<1>1. ASSUME NEW u \in Units, Execute(u) PROVE UnitIInv'
  <2>1. WholeTransactions'
    BY <1>1, DatabaseUntouched DEF Execute, UnitTypeOK
  <2> QED
    BY <1>1, <2>1 DEF Execute, UnitTypeOK, RaisedOnce, StagedSound, BlobsSound, Offloads
<1>2. ASSUME NEW u \in Units, Exit(u) PROVE UnitIInv'
  <2>1. WholeTransactions'
    BY <1>2, DatabaseUntouched DEF Exit, UnitTypeOK
  <2> QED
    BY <1>2, <2>1 DEF Exit, UnitTypeOK, UnitPhases, RaisedOnce, StagedSound, BlobsSound, Offloads
<1>3. ASSUME NEW u \in Units, NEW e \in Events, Collect(u, e) PROVE UnitIInv'
  <2>1. WholeTransactions'
    BY <1>3, DatabaseUntouched DEF Collect, UnitTypeOK
  <2>2. UnitTypeOK' /\ RaisedOnce'
    BY <1>3 DEF Collect, UnitTypeOK, RaisedOnce
  <2>3. \A v \in Units : collected[v] \subseteq collected'[v]
    BY <1>3 DEF Collect, UnitTypeOK
  <2>4. StagedSound'
    BY <1>3, <2>3 DEF Collect, StagedSound, Offloads
  <2>5. BlobsSound'
    BY <1>3, <2>3 DEF Collect, BlobsSound, Offloads
  <2> QED
    BY <2>1, <2>2, <2>4, <2>5
<1>4. ASSUME NEW u \in Units, NEW e \in Events, EnrollReference(u, e) PROVE UnitIInv'
  <2>1. WholeTransactions'
    BY <1>4, DatabaseUntouched DEF EnrollReference, AddRow, UnitTypeOK
  <2>2. e \in collected[u] /\ Offloads(u, e) /\ e \in Large
    BY <1>4 DEF EnrollReference, Pending, Offloads
  <2>3. UnitTypeOK'
    <3>1. [event |-> e, offloaded |-> TRUE] \in OutboxRows
        BY <2>2 DEF OutboxRows
    <3> QED
        BY <1>4, <3>1 DEF EnrollReference, AddRow, UnitTypeOK
  <2>4. StagedSound'
    BY <1>4, <2>2 DEF EnrollReference, AddRow, UnitTypeOK, StagedSound, Offloads
  <2>5. RaisedOnce' /\ BlobsSound'
    BY <1>4, <2>2 DEF EnrollReference, RaisedOnce, BlobsSound, Offloads
  <2> QED
    BY <2>1, <2>3, <2>4, <2>5
<1>5. ASSUME NEW u \in Units, NEW e \in Events, EnrollInline(u, e) PROVE UnitIInv'
  <2>1. WholeTransactions'
    BY <1>5, DatabaseUntouched DEF EnrollInline, AddRow, UnitTypeOK
  <2>2. UnitTypeOK'
    <3>1. [event |-> e, offloaded |-> FALSE] \in OutboxRows
        BY DEF OutboxRows
    <3> QED
        BY <1>5, <3>1 DEF EnrollInline, AddRow, UnitTypeOK
  <2>3. StagedSound'
    BY <1>5 DEF EnrollInline, AddRow, UnitTypeOK, StagedSound, Offloads, Pending
  <2>4. RaisedOnce' /\ BlobsSound'
    BY <1>5 DEF EnrollInline, RaisedOnce, BlobsSound, Offloads
  <2> QED
    BY <2>1, <2>2, <2>3, <2>4
<1>6. ASSUME NEW u \in Units, NEW e \in Events, UploadRaises(u, e) PROVE UnitIInv'
  <2>1. WholeTransactions'
    BY <1>6, DatabaseUntouched DEF UploadRaises, UnitTypeOK
  <2>2. e \in collected[u] /\ Offloads(u, e)
    BY <1>6 DEF UploadRaises, Pending
  <2>3. UnitTypeOK' /\ RaisedOnce'
    BY <1>6 DEF UploadRaises, UnitTypeOK, UnitPhases, RaisedOnce
  <2>4. StagedSound' /\ BlobsSound'
    BY <1>6, <2>2 DEF UploadRaises, StagedSound, BlobsSound, Offloads
  <2> QED
    BY <2>1, <2>3, <2>4
<1>7. ASSUME NEW u \in Units, CommitUnit(u) PROVE UnitIInv'
    BY <1>7, DatabaseGrows DEF CommitUnit
<1>8. ASSUME NEW u \in Units, Raise(u) PROVE UnitIInv'
  <2>1. WholeTransactions'
    BY <1>8, DatabaseUntouched DEF Raise, UnitTypeOK
  <2> QED
    BY <1>8, <2>1 DEF Raise, UnitTypeOK, UnitPhases, RaisedOnce, StagedSound, BlobsSound, Offloads
<1>9. ASSUME NEW u \in Units, CommitUnacknowledged(u) PROVE UnitIInv'
    BY <1>9, DatabaseGrows DEF CommitUnacknowledged
<1>10. CASE UNCHANGED unitVars
  <2>1. UnitTypeOK' /\ RaisedOnce'
    BY <1>10 DEF unitVars, UnitTypeOK, RaisedOnce
  <2>2. StagedSound' /\ BlobsSound'
    BY <1>10 DEF unitVars, StagedSound, BlobsSound, Offloads
  <2>3. WholeTransactions'
    BY <1>10 DEF unitVars, WholeTransactions, Persisted
  <2> QED
    BY <2>1, <2>2, <2>3
<1> QED
    BY <1>1, <1>2, <1>3, <1>4, <1>5, <1>6, <1>7, <1>8, <1>9, <1>10 DEF UnitNext

LEMMA UnitSpecIInv == UnitSpec => []UnitIInv
<1>1. UnitInit => UnitIInv
    BY UnitInitIInv
<1>2. UnitIInv /\ [UnitNext]_unitVars => UnitIInv'
    BY UnitStepIInv
<1> QED
    BY <1>1, <1>2, PTL DEF UnitSpec

-----------------------------------------------------------------------------

\* The variables stay in their types.
THEOREM UnitTypeCorrect == UnitSpec => []UnitTypeOK
<1>1. UnitIInv => UnitTypeOK
    BY DEF UnitIInv
<1> QED
    BY <1>1, UnitSpecIInv, PTL

\* Business rows and events commit together or not at all: UnitOfWork.commit
\* adds the outbox rows to the session it commits.
THEOREM CommitsWhole == UnitSpec => []AllOrNothing
<1>1. UnitIInv => AllOrNothing
  <2> SUFFICES ASSUME UnitIInv, NEW u \in Units PROVE
        /\ u \in tables => collected[u] \subseteq Logged
        /\ dirty[u] /\ collected[u] \cap Logged # {} => u \in tables
    BY DEF AllOrNothing
  <2>1. ASSUME u \in tables PROVE collected[u] \subseteq Logged
    BY <2>1 DEF UnitIInv, WholeTransactions, Persisted, Logged
  <2>2. ASSUME dirty[u], NEW e \in collected[u], e \in Logged PROVE u \in tables
    <3>1. PICK r \in enrolled : r.event = e
        BY <2>2 DEF Logged
    <3>2. PICK v \in Units : r \in staged[v] /\ Persisted(v)
        BY <3>1 DEF UnitIInv, WholeTransactions
    <3>3. e \in collected[v]
        BY <3>1, <3>2 DEF UnitIInv, StagedSound
    <3>4. v = u
        BY <3>3 DEF UnitIInv, RaisedOnce
    <3> QED
        BY <2>2, <3>2, <3>4 DEF Persisted
  <2> QED
    BY <2>1, <2>2
<1> QED
    BY <1>1, UnitSpecIInv, PTL

\* An acknowledged commit has every collected event in the outbox.
THEOREM NoEventLost == UnitSpec => []NothingForgotten
<1>1. UnitIInv => NothingForgotten
    BY DEF UnitIInv, WholeTransactions, Persisted, NothingForgotten, Logged
<1> QED
    BY <1>1, UnitSpecIInv, PTL

\* No committed row refers to an object that is not in the store: the put comes
\* before the row.
THEOREM NoDanglingReference == UnitSpec => []ReferencesResolve
<1>1. UnitIInv => ReferencesResolve
    BY DEF UnitIInv, WholeTransactions, StagedSound, ReferencesResolve
<1> QED
    BY <1>1, UnitSpecIInv, PTL

\* A committed unit's objects all have their rows.
THEOREM CommitLeavesNoOrphan == UnitSpec => []OrphansComeFromFailures
<1>1. UnitIInv => OrphansComeFromFailures
  <2> SUFFICES ASSUME UnitIInv, NEW u \in Units, progress[u] = "committed",
                      NEW e \in collected[u], e \in blobs
               PROVE  [event |-> e, offloaded |-> TRUE] \in enrolled
    BY DEF OrphansComeFromFailures
  <2>1. PICK r \in staged[u] : r.event = e
    BY DEF UnitIInv, WholeTransactions, Persisted
  <2>2. PICK v \in Units : e \in collected[v] /\ Offloads(v, e)
    BY DEF UnitIInv, BlobsSound
  <2>3. v = u
    BY <2>2 DEF UnitIInv, RaisedOnce
  <2>4. r.offloaded = TRUE
    BY <2>1, <2>2, <2>3 DEF UnitIInv, StagedSound, UnitTypeOK, OutboxRows
  <2>5. r \in [event : Events, offloaded : BOOLEAN] /\ r \in enrolled
    BY <2>1 DEF UnitIInv, UnitTypeOK, OutboxRows, WholeTransactions, Persisted
  <2>6. r = [event |-> e, offloaded |-> TRUE]
    BY <2>1, <2>4, <2>5
  <2> QED
    BY <2>5, <2>6
<1> QED
    BY <1>1, UnitSpecIInv, PTL


=============================================================================
