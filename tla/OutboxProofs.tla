---------------------------- MODULE OutboxProofs ----------------------------
(***************************************************************************)
(* Theorems about OutboxRelay, for any number of rows, relays, handlers    *)
(* and faults, and any batch limit and lease length.                       *)
(***************************************************************************)
EXTENDS OutboxRelay, TLAPS

USE OutboxAssumption

\* Once a pass has picked a row it keeps it in its batch, and every claimed row
\* is a row some unit of work committed.
RowHeld ==
    \A w \in Relays :
        /\ batch[w] \subseteq outbox
        /\ pc[w] \in {"logged", "marked", "failed"} => row[w] \in batch[w]

\* Handlers that have returned in an open transaction have had their effect,
\* and a row is marked only after the last of them.
DeliveredSoFar ==
    \A w \in Relays :
        /\ InTx(w) => \A h \in 1 .. handled[w] : effects[row[w]][h] > 0
        /\ pc[w] = "marked" => handled[w] = Subscribers

\* The inductive invariant behind the safety properties.
IInv ==
    /\ TypeOK
    /\ RowHeld
    /\ DeliveredSoFar
    /\ AtLeastOnce
    /\ PublishedUnleased

-----------------------------------------------------------------------------

LEMMA ConstFacts ==
    /\ Expired \in Nat /\ Unlocked \in Nat
    /\ Expired < Unlocked /\ Expired \in 0 .. Unlocked /\ Unlocked \in 0 .. Unlocked
    /\ 0 \in 0 .. Unlocked
    /\ NoRow \notin Events
    /\ Handlers \subseteq Nat
BY DEF Expired, Unlocked, NoRow, Handlers

\* The system starts in the invariant.
LEMMA InitIInv == Init => IInv
<1> SUFFICES ASSUME Init PROVE IInv
    OBVIOUS
<1>1. TypeOK
    BY ConstFacts DEF Init, TypeOK, Phases
<1>2. RowHeld /\ DeliveredSoFar
    BY DEF Init, RowHeld, DeliveredSoFar, InTx
<1>3. AtLeastOnce /\ PublishedUnleased
    BY DEF Init, AtLeastOnce, PublishedUnleased
<1> QED
    BY <1>1, <1>2, <1>3 DEF IInv


\* One more effect of handler h for row e takes nothing away from the others.
LEMMA EffectsGrow ==
    ASSUME TypeOK, NEW e \in Events, NEW h \in Handlers,
           effects' = [effects EXCEPT ![e][h] = Saturated(@)]
    PROVE  /\ effects' \in [Events -> [Handlers -> 0 .. 2]]
           /\ effects'[e][h] > 0
           /\ \A f \in Events, g \in Handlers : effects[f][g] > 0 => effects'[f][g] > 0
<1>1. effects \in [Events -> [Handlers -> 0 .. 2]]
    BY DEF TypeOK
<1>2. effects[e] \in [Handlers -> 0 .. 2]
    BY <1>1
<1>3. effects[e][h] \in 0 .. 2
    BY <1>2
<1>4. Saturated(effects[e][h]) \in 1 .. 2
    BY <1>3 DEF Saturated
<1> DEFINE new == [effects[e] EXCEPT ![h] = Saturated(effects[e][h])]
<1>5. effects' = [effects EXCEPT ![e] = new]
    OBVIOUS
<1>6. new \in [Handlers -> 0 .. 2] /\ new[h] = Saturated(effects[e][h])
      /\ \A g \in Handlers \ {h} : new[g] = effects[e][g]
    BY <1>2, <1>4
<1> HIDE DEF new
<1>7. effects'[e] = new /\ \A f \in Events \ {e} : effects'[f] = effects[f]
    BY <1>1, <1>5
<1>8. effects' \in [Events -> [Handlers -> 0 .. 2]]
    BY <1>1, <1>5, <1>6
<1>9. effects'[e][h] > 0
    BY <1>4, <1>6, <1>7
<1>10. ASSUME NEW f \in Events, NEW g \in Handlers, effects[f][g] > 0
       PROVE  effects'[f][g] > 0
    BY <1>6, <1>7, <1>9, <1>10
<1> QED
    BY <1>8, <1>9, <1>10

\* Every step of a producer, a relay, the clock or a fault preserves it.
LEMMA StepIInv == IInv /\ [Next]_vars => IInv'
<1> SUFFICES ASSUME IInv, [Next]_vars PROVE IInv'
    OBVIOUS
<1> USE ConstFacts DEF IInv
<1>1. ASSUME NEW S \in SUBSET Events, Enqueue(S)
      PROVE  IInv'
    <2>1. TypeOK'
        BY <1>1 DEF Enqueue, TypeOK, Phases, InTx, Handlers, relayVars, RowHeld
    <2>2. RowHeld'
        BY <1>1 DEF Enqueue, TypeOK, RowHeld, InTx, relayVars
    <2>3. DeliveredSoFar'
        BY <1>1 DEF Enqueue, TypeOK, DeliveredSoFar, RowHeld, InTx, Handlers, relayVars
    <2>5. AtLeastOnce'
        BY <1>1 DEF Enqueue, TypeOK, AtLeastOnce, DeliveredSoFar, RowHeld, Handlers, InTx, relayVars
    <2>6. PublishedUnleased'
        BY <1>1 DEF Enqueue, TypeOK, PublishedUnleased, RowHeld, InTx, relayVars
    <2> QED
        BY <2>1, <2>2, <2>3, <2>5, <2>6
<1>2. ASSUME Tick
      PROVE  IInv'
    <2>1. TypeOK'
        BY <1>2 DEF Tick, TypeOK, Phases, InTx, Handlers, relayVars, RowHeld
    <2>2. RowHeld'
        BY <1>2 DEF Tick, TypeOK, RowHeld, InTx, relayVars
    <2>3. DeliveredSoFar'
        BY <1>2 DEF Tick, TypeOK, DeliveredSoFar, RowHeld, InTx, Handlers, relayVars
    <2>5. AtLeastOnce'
        BY <1>2 DEF Tick, TypeOK, AtLeastOnce, DeliveredSoFar, RowHeld, Handlers, InTx, relayVars
    <2>6. PublishedUnleased'
      <3>1. \A e \in published : e \in Events /\ age[e] = Unlocked
        BY DEF TypeOK, PublishedUnleased
      <3>2. published' = published /\ \A e \in published : age'[e] = age[e]
        BY <1>2, <3>1 DEF Tick
      <3> QED
        BY <3>1, <3>2 DEF PublishedUnleased
    <2> QED
        BY <2>1, <2>2, <2>3, <2>5, <2>6
<1>3. ASSUME NEW w \in Relays, Claim(w)
      PROVE  IInv'
    <2>1. TypeOK'
        BY <1>3 DEF Claim, Claimable, Oldest, TypeOK, Phases, InTx, Handlers, relayVars, RowHeld
    <2>2. RowHeld'
      <3>1. PICK C \in SUBSET outbox : batch' = [batch EXCEPT ![w] = C]
        BY <1>3 DEF Claim, Claimable, Oldest
      <3>2. /\ \A v \in Relays : batch'[v] \subseteq outbox
            /\ \A v \in Relays \ {w} : batch'[v] = batch[v] /\ pc'[v] = pc[v]
            /\ pc'[w] = "working" /\ outbox' = outbox /\ row' = row
        BY <1>3, <3>1 DEF Claim, TypeOK, RowHeld
      <3> QED
        BY <3>2 DEF RowHeld
    <2>3. DeliveredSoFar'
        BY <1>3 DEF Claim, Claimable, Oldest, TypeOK, DeliveredSoFar, RowHeld, InTx, Handlers, relayVars
    <2>5. AtLeastOnce'
        BY <1>3 DEF Claim, Claimable, Oldest, TypeOK, AtLeastOnce, DeliveredSoFar, RowHeld, Handlers, InTx, relayVars
    <2>6. PublishedUnleased'
        BY <1>3 DEF Claim, Claimable, Oldest, TypeOK, PublishedUnleased, RowHeld, InTx, relayVars
    <2> QED
        BY <2>1, <2>2, <2>3, <2>5, <2>6
<1>4. ASSUME NEW w \in Relays, NEW e \in Events, LogEvent(w, e)
      PROVE  IInv'
    <2>1. TypeOK'
        BY <1>4 DEF LogEvent, TypeOK, Phases, InTx, Handlers, relayVars, RowHeld
    <2>2. RowHeld'
        BY <1>4 DEF LogEvent, TypeOK, RowHeld, InTx, relayVars
    <2>3. DeliveredSoFar'
        BY <1>4 DEF LogEvent, TypeOK, DeliveredSoFar, RowHeld, InTx, Handlers, relayVars
    <2>5. AtLeastOnce'
        BY <1>4 DEF LogEvent, TypeOK, AtLeastOnce, DeliveredSoFar, RowHeld, Handlers, InTx, relayVars
    <2>6. PublishedUnleased'
        BY <1>4 DEF LogEvent, TypeOK, PublishedUnleased, RowHeld, InTx, relayVars
    <2> QED
        BY <2>1, <2>2, <2>3, <2>5, <2>6
<1>5. ASSUME NEW w \in Relays, NEW e \in Events, RejectEnvelope(w, e)
      PROVE  IInv'
    <2>1. TypeOK'
        BY <1>5 DEF RejectEnvelope, TypeOK, Phases, InTx, Handlers, relayVars, RowHeld
    <2>2. RowHeld'
        BY <1>5 DEF RejectEnvelope, TypeOK, RowHeld, InTx, relayVars
    <2>3. DeliveredSoFar'
        BY <1>5 DEF RejectEnvelope, TypeOK, DeliveredSoFar, RowHeld, InTx, Handlers, relayVars
    <2>5. AtLeastOnce'
        BY <1>5 DEF RejectEnvelope, TypeOK, AtLeastOnce, DeliveredSoFar, RowHeld, Handlers, InTx, relayVars
    <2>6. PublishedUnleased'
        BY <1>5 DEF RejectEnvelope, TypeOK, PublishedUnleased, RowHeld, InTx, relayVars
    <2> QED
        BY <2>1, <2>2, <2>3, <2>5, <2>6
<1>6. ASSUME NEW w \in Relays, Deliver(w)
      PROVE  IInv'
    <2> DEFINE h == handled[w] + 1
    <2>7. row[w] \in Events /\ h \in Handlers
        BY <1>6 DEF Deliver, TypeOK, RowHeld, Handlers
    <2>8. /\ effects' \in [Events -> [Handlers -> 0 .. 2]]
          /\ effects'[row[w]][h] > 0
          /\ \A f \in Events, g \in Handlers : effects[f][g] > 0 => effects'[f][g] > 0
        BY <1>6, <2>7, EffectsGrow DEF Deliver
    <2>1. TypeOK'
        BY <1>6, <2>8 DEF Deliver, TypeOK, relayVars
    <2>2. RowHeld'
        BY <1>6 DEF Deliver, Saturated, TypeOK, RowHeld, InTx, relayVars
    <2>3. DeliveredSoFar'
      <3>1. ASSUME NEW v \in Relays, InTx(v), NEW k \in 1 .. handled'[v]
            PROVE  effects'[row[v]][k] > 0
        <4>1. row[v] \in Events /\ k \in Handlers
            BY <1>6, <3>1 DEF Deliver, TypeOK, RowHeld, InTx, Handlers
        <4>2. CASE v = w /\ k = h
            BY <2>8, <4>2
        <4>3. CASE ~(v = w /\ k = h)
            <5>1. k \in 1 .. handled[v]
                BY <1>6, <3>1, <4>3 DEF Deliver, TypeOK
            <5> QED
                BY <2>8, <3>1, <4>1, <5>1 DEF DeliveredSoFar
        <4> QED
            BY <4>2, <4>3
      <3>2. \A v \in Relays : pc[v] = "marked" => handled'[v] = Subscribers
        BY <1>6 DEF Deliver, TypeOK, DeliveredSoFar
      <3>3. pc' = pc /\ row' = row
        BY <1>6 DEF Deliver
      <3> QED
        BY <3>1, <3>2, <3>3 DEF DeliveredSoFar, InTx
    <2>5. AtLeastOnce'
        BY <1>6, <2>8 DEF Deliver, TypeOK, AtLeastOnce
    <2>6. PublishedUnleased'
        BY <1>6 DEF Deliver, Saturated, TypeOK, PublishedUnleased, RowHeld, InTx, relayVars
    <2> QED
        BY <2>1, <2>2, <2>3, <2>5, <2>6
<1>7. ASSUME NEW w \in Relays, Mark(w)
      PROVE  IInv'
    <2>1. TypeOK'
        BY <1>7 DEF Mark, TypeOK, Phases, InTx, Handlers, relayVars, RowHeld
    <2>2. RowHeld'
        BY <1>7 DEF Mark, TypeOK, RowHeld, InTx, relayVars
    <2>3. DeliveredSoFar'
        BY <1>7 DEF Mark, TypeOK, DeliveredSoFar, RowHeld, InTx, Handlers, relayVars
    <2>5. AtLeastOnce'
        BY <1>7 DEF Mark, TypeOK, AtLeastOnce, DeliveredSoFar, RowHeld, Handlers, InTx, relayVars
    <2>6. PublishedUnleased'
        BY <1>7 DEF Mark, TypeOK, PublishedUnleased, RowHeld, InTx, relayVars
    <2> QED
        BY <2>1, <2>2, <2>3, <2>5, <2>6
<1>8. ASSUME NEW w \in Relays, Commit(w)
      PROVE  IInv'
    <2>7. row[w] \in batch[w] /\ row[w] \in outbox
        BY <1>8 DEF Commit, RowHeld
    <2>1. TypeOK'
      <3>1. published' \in SUBSET outbox' /\ eventLog' \in SUBSET Events
        BY <1>8, <2>7 DEF Commit, CommitRow, NextRow, TypeOK
      <3>2. age' \in [Events -> 0 .. Unlocked]
        BY <1>8, <2>7 DEF Commit, CommitRow, NextRow, TypeOK
      <3>3. /\ pc' \in [Relays -> Phases] /\ batch' \in [Relays -> SUBSET Events]
            /\ row' \in [Relays -> Events \cup {NoRow}] /\ handled' \in [Relays -> 0 .. Subscribers]
        BY <1>8 DEF Commit, CommitRow, NextRow, TypeOK, Phases
      <3>4. outbox' = outbox /\ effects' = effects /\ faults' \in 0 .. MaxFaults
        BY <1>8 DEF Commit, CommitRow, NextRow, TypeOK
      <3>5. prompt' = prompt
        BY <1>8 DEF Commit, CommitRow, NextRow
      <3> QED
        BY <3>1, <3>2, <3>3, <3>4, <3>5 DEF TypeOK
    <2>2. RowHeld'
        BY <1>8 DEF Commit, CommitRow, NextRow, TypeOK, RowHeld, InTx, relayVars
    <2>3. DeliveredSoFar'
        BY <1>8 DEF Commit, CommitRow, NextRow, TypeOK, DeliveredSoFar, RowHeld, InTx, Handlers, relayVars
    <2>5. AtLeastOnce'
        BY <1>8 DEF Commit, CommitRow, NextRow, TypeOK, AtLeastOnce, DeliveredSoFar, RowHeld, Handlers, InTx, relayVars
    <2>6. PublishedUnleased'
        BY <1>8 DEF Commit, CommitRow, NextRow, TypeOK, PublishedUnleased, RowHeld, InTx, relayVars
    <2> QED
        BY <2>1, <2>2, <2>3, <2>5, <2>6
<1>9. ASSUME NEW w \in Relays, RecordError(w)
      PROVE  IInv'
    <2>1. TypeOK'
        BY <1>9 DEF RecordError, NextRow, TypeOK, Phases, InTx, Handlers, relayVars, RowHeld
    <2>2. RowHeld'
        BY <1>9 DEF RecordError, NextRow, TypeOK, RowHeld, InTx, relayVars
    <2>3. DeliveredSoFar'
        BY <1>9 DEF RecordError, NextRow, TypeOK, DeliveredSoFar, RowHeld, InTx, Handlers, relayVars
    <2>5. AtLeastOnce'
        BY <1>9 DEF RecordError, NextRow, TypeOK, AtLeastOnce, DeliveredSoFar, RowHeld, Handlers, InTx, relayVars
    <2>6. PublishedUnleased'
        BY <1>9 DEF RecordError, NextRow, TypeOK, PublishedUnleased, RowHeld, InTx, relayVars
    <2> QED
        BY <2>1, <2>2, <2>3, <2>5, <2>6
<1>10. ASSUME NEW w \in Relays, AttemptFails(w)
      PROVE  IInv'
    <2> DEFINE h == handled[w] + 1
    <2>7. row[w] \in Events /\ (handled[w] < Subscribers => h \in Handlers)
        BY <1>10 DEF AttemptFails, TypeOK, RowHeld, InTx, Handlers
    <2>8. /\ effects' \in [Events -> [Handlers -> 0 .. 2]]
          /\ \A f \in Events, g \in Handlers : effects[f][g] > 0 => effects'[f][g] > 0
      <3>1. CASE UNCHANGED effects
        BY <3>1 DEF TypeOK
      <3>2. CASE /\ handled[w] < Subscribers
                 /\ effects' = [effects EXCEPT ![row[w]][h] = Saturated(@)]
        BY <2>7, <3>2, EffectsGrow
      <3> QED
        BY <1>10, <3>1, <3>2 DEF AttemptFails
    <2>1. TypeOK'
        BY <1>10, <2>8 DEF AttemptFails, Fault, TypeOK, Phases
    <2>2. RowHeld'
        BY <1>10 DEF AttemptFails, Fault, Saturated, TypeOK, RowHeld, InTx, relayVars
    <2>3. DeliveredSoFar'
      <3>1. \A v \in Relays : pc'[v] \in {"logged", "marked"} => pc'[v] = pc[v] /\ InTx(v)
        BY <1>10 DEF AttemptFails, TypeOK, InTx
      <3>2. \A v \in Relays : InTx(v) => row[v] \in Events /\ 1 .. handled[v] \subseteq Handlers
        BY DEF TypeOK, RowHeld, InTx, Handlers
      <3>3. row' = row /\ handled' = handled
        BY <1>10 DEF AttemptFails
      <3> QED
        BY <2>8, <3>1, <3>2, <3>3 DEF DeliveredSoFar, InTx
    <2>5. AtLeastOnce'
        BY <1>10, <2>8 DEF AttemptFails, TypeOK, AtLeastOnce
    <2>6. PublishedUnleased'
        BY <1>10 DEF AttemptFails, Fault, Saturated, TypeOK, PublishedUnleased, RowHeld, InTx, relayVars
    <2> QED
        BY <2>1, <2>2, <2>3, <2>5, <2>6
<1>11. ASSUME NEW w \in Relays, CommitUnacknowledged(w)
      PROVE  IInv'
    <2>7. row[w] \in batch[w] /\ row[w] \in outbox
        BY <1>11 DEF CommitUnacknowledged, RowHeld
    <2>1. TypeOK'
      <3>1. published' \in SUBSET outbox' /\ eventLog' \in SUBSET Events
        BY <1>11, <2>7 DEF CommitUnacknowledged, CommitRow, Fault, TypeOK
      <3>2. age' \in [Events -> 0 .. Unlocked]
        BY <1>11, <2>7 DEF CommitUnacknowledged, CommitRow, Fault, TypeOK
      <3>3. /\ pc' \in [Relays -> Phases] /\ batch' \in [Relays -> SUBSET Events]
            /\ row' \in [Relays -> Events \cup {NoRow}] /\ handled' \in [Relays -> 0 .. Subscribers]
        BY <1>11 DEF CommitUnacknowledged, CommitRow, Fault, TypeOK, Phases
      <3>4. outbox' = outbox /\ effects' = effects /\ faults' \in 0 .. MaxFaults
        BY <1>11 DEF CommitUnacknowledged, CommitRow, Fault, TypeOK
      <3>5. prompt' = prompt
        BY <1>11 DEF CommitUnacknowledged, CommitRow, Fault
      <3> QED
        BY <3>1, <3>2, <3>3, <3>4, <3>5 DEF TypeOK
    <2>2. RowHeld'
        BY <1>11 DEF CommitUnacknowledged, CommitRow, Fault, TypeOK, RowHeld, InTx, relayVars
    <2>3. DeliveredSoFar'
        BY <1>11 DEF CommitUnacknowledged, CommitRow, Fault, TypeOK, DeliveredSoFar, RowHeld, InTx, Handlers, relayVars
    <2>5. AtLeastOnce'
        BY <1>11 DEF CommitUnacknowledged, CommitRow, Fault, TypeOK, AtLeastOnce, DeliveredSoFar, RowHeld, Handlers, InTx, relayVars
    <2>6. PublishedUnleased'
        BY <1>11 DEF CommitUnacknowledged, CommitRow, Fault, TypeOK, PublishedUnleased, RowHeld, InTx, relayVars
    <2> QED
        BY <2>1, <2>2, <2>3, <2>5, <2>6
<1>12. ASSUME NEW w \in Relays, Crash(w)
      PROVE  IInv'
    <2>1. TypeOK'
        BY <1>12 DEF Crash, Fault, TypeOK, Phases, InTx, Handlers, relayVars, RowHeld
    <2>2. RowHeld'
        BY <1>12 DEF Crash, Fault, TypeOK, RowHeld, InTx, relayVars
    <2>3. DeliveredSoFar'
        BY <1>12 DEF Crash, Fault, TypeOK, DeliveredSoFar, RowHeld, InTx, Handlers, relayVars
    <2>5. AtLeastOnce'
        BY <1>12 DEF Crash, Fault, TypeOK, AtLeastOnce, DeliveredSoFar, RowHeld, Handlers, InTx, relayVars
    <2>6. PublishedUnleased'
        BY <1>12 DEF Crash, Fault, TypeOK, PublishedUnleased, RowHeld, InTx, relayVars
    <2> QED
        BY <2>1, <2>2, <2>3, <2>5, <2>6
<1>13. CASE UNCHANGED vars
    BY <1>13 DEF vars, TypeOK, RowHeld, DeliveredSoFar, AtLeastOnce,
       PublishedUnleased, InTx, Handlers
<1> QED
    BY <1>1, <1>2, <1>3, <1>4, <1>5, <1>6, <1>7, <1>8, <1>9, <1>10, <1>11, <1>12, <1>13 DEF Next, Pass

-----------------------------------------------------------------------------

\* The invariant holds in every reachable state.
LEMMA SpecIInv == Spec => []IInv
BY InitIInv, StepIInv, PTL DEF Spec

\* Every variable keeps its type, and only committed rows are ever published.
THEOREM TypeCorrect == Spec => []TypeOK
BY SpecIInv, PTL DEF IInv

\* No handler is skipped (AtLeastOnce): a row is published only after every
\* sync handler of the bus has run for it.
THEOREM NoHandlerSkipped == Spec => []AtLeastOnce
BY SpecIInv, PTL DEF IInv

\* A published row holds no lease (PublishedUnleased), so no claim, RECORD_ERROR
\* or second MARK_PUBLISHED can bring it back.
THEOREM PublishedStays == Spec => []PublishedUnleased
BY SpecIInv, PTL DEF IInv

\* The unique index serialises first deliveries (FirstDeliveryAlone): two
\* passes share a row's transaction only after the row has been promoted.
THEOREM FirstDeliverySerial == Spec => []FirstDeliveryAlone
<1>1. Init => FirstDeliveryAlone
    BY DEF Init, FirstDeliveryAlone, InTx
<1>2. TypeOK /\ FirstDeliveryAlone /\ [Next]_vars => FirstDeliveryAlone'
  <2> SUFFICES ASSUME TypeOK, FirstDeliveryAlone, [Next]_vars
               PROVE  FirstDeliveryAlone'
      OBVIOUS
  <2>1. ASSUME NEW w \in Relays, NEW e \in Events, LogEvent(w, e)
        PROVE  FirstDeliveryAlone'
      BY <2>1 DEF LogEvent, InsertWaits, FirstDeliveryAlone, InTx, TypeOK
  <2>2. CASE /\ \A v \in Relays : InTx(v)' => InTx(v) /\ row'[v] = row[v]
             /\ eventLog \subseteq eventLog'
      BY <2>2 DEF FirstDeliveryAlone
  <2>3. ASSUME NEW w \in Relays,
               \/ Claim(w) \/ (\E e \in Events : RejectEnvelope(w, e)) \/ Deliver(w) \/ Mark(w)
               \/ Commit(w) \/ RecordError(w) \/ AttemptFails(w) \/ CommitUnacknowledged(w)
               \/ Crash(w)
        PROVE  FirstDeliveryAlone'
    <3>1. \A v \in Relays : InTx(v)' => InTx(v) /\ row'[v] = row[v]
        BY <2>3 DEF TypeOK, InTx, Claim, RejectEnvelope, Deliver, Mark, Commit, RecordError,
           AttemptFails, CommitUnacknowledged, Crash, NextRow
    <3>2. eventLog \subseteq eventLog'
        BY <2>3 DEF Claim, RejectEnvelope, Deliver, Mark, Commit, RecordError,
           AttemptFails, CommitUnacknowledged, Crash, CommitRow
    <3> QED
        BY <2>2, <3>1, <3>2
  <2>4. CASE Tick \/ (\E S \in SUBSET Events : Enqueue(S)) \/ UNCHANGED vars
      BY <2>2, <2>4 DEF Tick, Enqueue, vars, relayVars, InTx
  <2> QED
      BY <2>1, <2>3, <2>4 DEF Next, Pass
<1> QED
    BY <1>1, <1>2, TypeCorrect, PTL DEF Spec

-----------------------------------------------------------------------------
(***************************************************************************)
(* Leases that outlive their pass.                                         *)
(***************************************************************************)

\* What makes OneHolder inductive: a row in somebody's batch is still freshly
\* leased, or promoted already, so no claim can find it.
HeldIsFresh ==
    prompt => \A w \in Relays : \A e \in batch[w] : age[e] <= LeaseTicks \/ e \in published

LeaseInv == HeldIsFresh /\ OneHolder

LEMMA SpecLeaseInv == Spec => []LeaseInv
<1>1. Init => LeaseInv
    BY DEF Init, LeaseInv, HeldIsFresh, OneHolder
<1>2. IInv /\ LeaseInv /\ [Next]_vars => LeaseInv'
  <2> SUFFICES ASSUME IInv, LeaseInv, [Next]_vars
               PROVE  LeaseInv'
      OBVIOUS
  <2>p. prompt' = prompt
      BY DEF Next, Pass, Enqueue, Tick, Claim, LogEvent, RejectEnvelope, Deliver, Mark, Commit,
         RecordError, AttemptFails, CommitUnacknowledged, Crash, vars
  <2>0. CASE ~prompt
      BY <2>0, <2>p DEF LeaseInv, HeldIsFresh, OneHolder
  <2> SUFFICES ASSUME prompt
               PROVE  LeaseInv'
      BY <2>0
  <2> USE ConstFacts DEF IInv
  <2>a. ASSUME \A v \in Relays : batch'[v] \subseteq batch[v],
               published \subseteq published',
               \A v \in Relays : \A e \in batch'[v] :
                    age'[e] <= LeaseTicks \/ e \in published'
        PROVE  LeaseInv'
      BY <2>a DEF LeaseInv, HeldIsFresh, OneHolder
  <2>1. ASSUME NEW w \in Relays, Claim(w)
        PROVE  LeaseInv'
    <3>1. PICK C \in SUBSET Claimable(w) :
              /\ batch' = [batch EXCEPT ![w] = C]
              /\ age' = [e \in Events |-> IF e \in C THEN 0 ELSE age[e]]
        BY <2>1 DEF Claim, Oldest
    <3>2. \A e \in C : e \in Events /\ age[e] > LeaseTicks /\ e \notin published
        BY DEF Claimable, TypeOK, Expired
    <3>3. \A v \in Relays : C \cap batch[v] = {}
      <4> SUFFICES ASSUME NEW v \in Relays, NEW e \in C, e \in batch[v]
                   PROVE  FALSE
          OBVIOUS
      <4>1. age[e] \in 0 .. Unlocked
          BY <3>2 DEF TypeOK
      <4>2. age[e] <= LeaseTicks \/ e \in published
          BY DEF LeaseInv, HeldIsFresh
      <4> QED
          BY <3>2, <4>1, <4>2 DEF Unlocked
    <3>4. published' = published
        BY <2>1 DEF Claim
    <3>5. /\ batch'[w] = C
          /\ \A v \in Relays \ {w} : batch'[v] = batch[v]
          /\ \A v \in Relays : batch[v] \subseteq Events
        BY <3>1 DEF TypeOK
    <3>6. OneHolder'
        BY <3>3, <3>5 DEF LeaseInv, OneHolder
    <3>7. HeldIsFresh'
        BY <3>1, <3>2, <3>3, <3>4, <3>5 DEF LeaseInv, HeldIsFresh
    <3> QED
        BY <3>6, <3>7 DEF LeaseInv
  <2>2. ASSUME Tick
        PROVE  LeaseInv'
    <3>1. \A v \in Relays : \A e \in batch[v] :
              age[e] <= LeaseTicks => age'[e] <= LeaseTicks
      <4> SUFFICES ASSUME NEW v \in Relays, NEW e \in batch[v], age[e] <= LeaseTicks
                   PROVE  age'[e] <= LeaseTicks
          OBVIOUS
      <4>1. e \in Events /\ age[e] \in Nat
          BY DEF TypeOK
      <4>2. age[e] # LeaseTicks
          BY <2>2 DEF Tick
      <4>3. age'[e] = IF age[e] < Expired THEN age[e] + 1 ELSE age[e]
          BY <2>2, <4>1 DEF Tick
      <4> QED
          BY <4>1, <4>2, <4>3 DEF Expired
    <3> QED
        BY <2>2, <2>a, <3>1 DEF Tick, LeaseInv, HeldIsFresh, relayVars
  <2>3. ASSUME NEW w \in Relays, RecordError(w)
        PROVE  LeaseInv'
    <3>1. \A v \in Relays : batch'[v] \subseteq batch[v] /\ row[w] \notin batch'[v]
        BY <2>3 DEF RecordError, NextRow, TypeOK, RowHeld, LeaseInv, OneHolder
    <3>2. published' = published /\ \A v \in Relays : \A e \in batch'[v] : age'[e] = age[e]
        BY <2>3, <3>1 DEF RecordError, TypeOK
    <3> QED
        BY <2>a, <3>1, <3>2 DEF LeaseInv, HeldIsFresh
  <2>4. ASSUME NEW w \in Relays, Commit(w) \/ CommitUnacknowledged(w)
        PROVE  LeaseInv'
    <3>1. \A v \in Relays : batch'[v] \subseteq batch[v]
      <4>1. CASE Commit(w)
        BY <4>1 DEF Commit, NextRow, TypeOK
      <4>2. CASE CommitUnacknowledged(w)
        BY <4>2 DEF CommitUnacknowledged
      <4> QED
        BY <2>4, <4>1, <4>2
    <3>2. /\ published' = published \cup {row[w]}
          /\ \A v \in Relays : \A e \in batch[v] : e # row[w] => age'[e] = age[e]
        BY <2>4 DEF Commit, CommitUnacknowledged, CommitRow, TypeOK
    <3> QED
        BY <2>a, <3>1, <3>2 DEF LeaseInv, HeldIsFresh
  <2>5. ASSUME NEW w \in Relays,
               \/ \E e \in Events : LogEvent(w, e) \/ RejectEnvelope(w, e)
               \/ Deliver(w) \/ Mark(w) \/ AttemptFails(w) \/ Crash(w)
        PROVE  LeaseInv'
    <3>1. /\ \A v \in Relays : batch'[v] \subseteq batch[v]
          /\ age' = age /\ published' = published
        BY <2>5 DEF LogEvent, RejectEnvelope, Deliver, Mark, AttemptFails, Crash, TypeOK
    <3> QED
        BY <2>a, <3>1 DEF LeaseInv, HeldIsFresh
  <2>6. CASE (\E S \in SUBSET Events : Enqueue(S)) \/ UNCHANGED vars
      BY <2>6, <2>a DEF Enqueue, vars, relayVars, LeaseInv, HeldIsFresh
  <2> QED
      BY <2>1, <2>2, <2>3, <2>4, <2>5, <2>6 DEF Next, Pass
<1> QED
    BY <1>1, <1>2, SpecIInv, PTL DEF Spec

\* When no pass outlives its lease, no row is in two batches (OneHolder), the
\* RECORD_ERROR of one worker and the claims of the others included.
THEOREM LeaseExclusive == Spec => []OneHolder
<1>1. LeaseInv => OneHolder
    BY DEF LeaseInv
<1> QED
    BY <1>1, SpecLeaseInv, PTL

-----------------------------------------------------------------------------

\* Some open transaction has run handler h for row e.
Delivered(e, h) == \E w \in Relays : InTx(w) /\ row[w] = e /\ h <= handled[w]

\* What makes OnlyFaultsRepeat inductive: a batch holds no published row, and a
\* handler that has seen an event saw it once, for a row that is published or in
\* the transaction that has run it.
Fresh ==
    (prompt /\ faults = 0) =>
        /\ \A w \in Relays : batch[w] \cap published = {}
        /\ \A e \in Events, h \in Handlers :
            effects[e][h] > 0 => effects[e][h] = 1 /\ (e \in published \/ Delivered(e, h))

\* A step that delivers and publishes nothing, and closes no transaction.
LEMMA FreshKept ==
    ASSUME Fresh, UNCHANGED <<prompt, faults, published, effects>>,
           \A w \in Relays : batch'[w] \cap published = {} \/ batch'[w] \subseteq batch[w],
           \A w \in Relays : InTx(w) =>
               InTx(w)' /\ row'[w] = row[w] /\ handled'[w] = handled[w]
    PROVE  Fresh'
<1> SUFFICES ASSUME prompt, faults = 0
             PROVE  /\ \A w \in Relays : batch'[w] \cap published = {}
                    /\ \A e \in Events, h \in Handlers : effects[e][h] > 0 =>
                           effects[e][h] = 1 /\ (e \in published \/ Delivered(e, h)')
    BY DEF Fresh
<1>1. \A e \in Events, h \in Handlers : Delivered(e, h) => Delivered(e, h)'
    BY DEF Delivered
<1> QED
    BY <1>1 DEF Fresh

\* A handler runs for a row that nobody else has, and that it has not seen.
LEMMA DeliverFresh ==
    ASSUME IInv, LeaseInv, Fresh, NEW w \in Relays, Deliver(w)
    PROVE  Fresh'
<1> SUFFICES ASSUME prompt, faults = 0
             PROVE  /\ \A v \in Relays : batch'[v] \cap published' = {}
                    /\ \A e \in Events, h \in Handlers : effects'[e][h] > 0 =>
                           effects'[e][h] = 1 /\ (e \in published' \/ Delivered(e, h)')
    BY DEF Fresh, Deliver
<1>1. PICK r \in Events, n \in Handlers :
          /\ r = row[w] /\ n = handled[w] + 1
          /\ r \in batch[w] /\ handled[w] \in Nat /\ InTx(w)
  <2>1. row[w] \in batch[w] /\ batch[w] \subseteq Events /\ InTx(w)
      BY DEF Deliver, IInv, RowHeld, TypeOK, InTx
  <2>2. handled[w] \in Nat /\ handled[w] + 1 \in Handlers
      BY DEF Deliver, IInv, TypeOK, Handlers
  <2> QED
      BY <2>1, <2>2
<1>2. /\ effects' = [effects EXCEPT ![r][n] = Saturated(@)]
      /\ handled' = [handled EXCEPT ![w] = n]
      /\ UNCHANGED <<published, pc, batch, row>>
    BY <1>1 DEF Deliver
<1>3. ~(r \in published \/ Delivered(r, n))
  <2>1. r \notin published
      BY <1>1 DEF Fresh
  <2>2. ASSUME NEW v \in Relays, InTx(v), row[v] = r, n <= handled[v] PROVE FALSE
    <3>1. v # w
        BY <1>1, <2>2
    <3>2. r \in batch[v]
        BY <2>2 DEF IInv, RowHeld, InTx
    <3> QED
        BY <1>1, <3>1, <3>2 DEF LeaseInv, OneHolder
  <2> QED
      BY <2>1, <2>2 DEF Delivered
<1>4. effects[r][n] = 0
    BY <1>1, <1>3 DEF Fresh, IInv, TypeOK
<1>5. \A e \in Events, h \in Handlers :
          effects'[e][h] = IF e = r /\ h = n THEN 1 ELSE effects[e][h]
    BY <1>1, <1>2, <1>4 DEF IInv, TypeOK, Saturated
<1>6. handled'[w] = n /\ \A v \in Relays \ {w} : handled'[v] = handled[v]
    BY <1>2 DEF IInv, TypeOK
<1>7. Delivered(r, n)'
  <2>1. InTx(w)' /\ row'[w] = r
      BY <1>1, <1>2 DEF InTx
  <2>2. n <= handled'[w]
      BY <1>1, <1>6 DEF Handlers
  <2> QED
      BY <2>1, <2>2 DEF Delivered
<1>8. ASSUME NEW e \in Events, NEW h \in Handlers, Delivered(e, h) PROVE Delivered(e, h)'
  <2>1. PICK v \in Relays : InTx(v) /\ row[v] = e /\ h <= handled[v]
      BY <1>8 DEF Delivered
  <2>2. h \in Nat /\ h <= handled'[v]
      BY <1>1, <1>6, <2>1 DEF Handlers
  <2> QED
      BY <1>2, <2>1, <2>2 DEF Delivered, InTx
<1>9. ASSUME NEW e \in Events, NEW h \in Handlers, effects'[e][h] > 0
      PROVE  effects'[e][h] = 1 /\ (e \in published' \/ Delivered(e, h)')
  <2>1. CASE e = r /\ h = n
      BY <1>5, <1>7, <2>1
  <2>2. CASE ~(e = r /\ h = n)
    <3>1. effects'[e][h] = effects[e][h]
        BY <1>5, <2>2
    <3>2. effects[e][h] = 1 /\ (e \in published \/ Delivered(e, h))
        BY <1>9, <3>1 DEF Fresh
    <3> QED
        BY <1>2, <1>8, <3>1, <3>2
  <2> QED
      BY <2>1, <2>2
<1> QED
    BY <1>2, <1>9 DEF Fresh

\* The row leaves the batch as it is published, and no other batch has it.
LEMMA CommitFresh ==
    ASSUME IInv, LeaseInv, Fresh, NEW w \in Relays, Commit(w)
    PROVE  Fresh'
<1> SUFFICES ASSUME prompt, faults = 0
             PROVE  /\ \A v \in Relays : batch'[v] \cap published' = {}
                    /\ \A e \in Events, h \in Handlers : effects[e][h] > 0 =>
                           effects[e][h] = 1 /\ (e \in published' \/ Delivered(e, h)')
    BY DEF Fresh, Commit
<1>1. /\ published' = published \cup {row[w]} /\ row[w] \in batch[w]
      /\ batch'[w] = batch[w] \ {row[w]} /\ \A v \in Relays \ {w} : batch'[v] = batch[v]
      /\ \A v \in Relays \ {w} : pc'[v] = pc[v] /\ row'[v] = row[v] /\ handled'[v] = handled[v]
    BY DEF Commit, CommitRow, NextRow, IInv, TypeOK, RowHeld
<1>2. \A v \in Relays \ {w} : row[w] \notin batch[v]
    BY <1>1 DEF LeaseInv, OneHolder
<1>3. ASSUME NEW e \in Events, NEW h \in Handlers, Delivered(e, h)
      PROVE  e \in published' \/ Delivered(e, h)'
    BY <1>1, <1>3 DEF Delivered, InTx
<1>4. ASSUME NEW v \in Relays PROVE batch'[v] \cap published' = {}
  <2>1. batch[v] \cap published = {}
      BY DEF Fresh
  <2>2. row[w] \notin batch'[v] /\ batch'[v] \subseteq batch[v]
      BY <1>1, <1>2
  <2> QED
      BY <1>1, <2>1, <2>2
<1>5. \A e \in Events, h \in Handlers : effects[e][h] > 0 =>
          effects[e][h] = 1 /\ (e \in published \/ Delivered(e, h))
    BY DEF Fresh
<1> QED
    BY <1>1, <1>3, <1>4, <1>5

\* A handler sees an event a second time only after a fault or a pass that outlived
\* its lease (OnlyFaultsRepeat): a claim takes unpublished rows that nobody holds,
\* and _promote publishes a row in the transaction whose handlers have run.
THEOREM HandledOnce == Spec => []OnlyFaultsRepeat
<1>1. Init => Fresh
    BY DEF Init, Fresh
<1>2. IInv /\ LeaseInv /\ Fresh /\ [Next]_vars => Fresh'
  <2> SUFFICES ASSUME IInv, LeaseInv, Fresh, [Next]_vars
               PROVE  Fresh'
      OBVIOUS
  <2>1. ASSUME NEW w \in Relays, Claim(w) PROVE Fresh'
    <3>1. /\ pc[w] = "idle" /\ pc' = [pc EXCEPT ![w] = "working"]
          /\ UNCHANGED <<prompt, faults, published, effects, row, handled>>
        BY <2>1 DEF Claim
    <3>2. PICK C \in SUBSET Claimable(w) : batch' = [batch EXCEPT ![w] = C]
        BY <2>1 DEF Claim, Oldest
    <3>3. \A v \in Relays : batch'[v] \cap published = {} \/ batch'[v] \subseteq batch[v]
        BY <3>2 DEF Claimable, IInv, TypeOK
    <3>4. \A v \in Relays : InTx(v) => InTx(v)'
        BY <3>1 DEF InTx, IInv, TypeOK
    <3> QED
        BY <3>1, <3>3, <3>4, FreshKept
  <2>2. ASSUME NEW w \in Relays, Deliver(w) PROVE Fresh'
      BY <2>2, DeliverFresh
  <2>3. ASSUME NEW w \in Relays, Commit(w) PROVE Fresh'
      BY <2>3, CommitFresh
  <2>4. ASSUME NEW w \in Relays,
               \/ \E e \in Events : LogEvent(w, e) \/ RejectEnvelope(w, e)
               \/ Mark(w) \/ RecordError(w)
        PROVE  Fresh'
    <3>1. /\ UNCHANGED <<prompt, faults, published, effects>>
          /\ \A v \in Relays : batch'[v] \subseteq batch[v]
        BY <2>4 DEF LogEvent, RejectEnvelope, Mark, RecordError, NextRow, IInv, TypeOK
    <3>2. \A v \in Relays : InTx(v) => InTx(v)' /\ row'[v] = row[v] /\ handled'[v] = handled[v]
        BY <2>4 DEF LogEvent, RejectEnvelope, Mark, RecordError, NextRow, InTx, IInv, TypeOK
    <3> QED
        BY <3>1, <3>2, FreshKept
  <2>5. ASSUME NEW w \in Relays, AttemptFails(w) \/ CommitUnacknowledged(w) \/ Crash(w)
        PROVE  Fresh'
    <3>1. faults' # 0
        BY <2>5 DEF AttemptFails, CommitUnacknowledged, Crash, Fault, IInv, TypeOK
    <3> QED
        BY <3>1 DEF Fresh
  <2>6. CASE (\E S \in SUBSET Events : Enqueue(S)) \/ Tick \/ UNCHANGED vars
      BY <2>6, FreshKept DEF Enqueue, Tick, vars, relayVars, InTx
  <2> QED
      BY <2>1, <2>2, <2>3, <2>4, <2>5, <2>6 DEF Next, Pass
<1>3. IInv /\ Fresh => OnlyFaultsRepeat
    BY DEF Fresh, OnlyFaultsRepeat, IInv, TypeOK
<1> QED
    BY <1>1, <1>2, <1>3, SpecIInv, SpecLeaseInv, PTL DEF Spec

-----------------------------------------------------------------------------

\* The relay implements the safety part of DurableLog: a unit of work's rows
\* are accepted together, and each event is appended once, by one commit.
THEOREM RefinesDurableLog == Spec => Log!Safe
<1>1. Init => Log!Init
    BY DEF Init, Log!Init
<1>2. IInv /\ [Next]_vars => [Log!Next]_(Log!dlVars)
  <2> SUFFICES ASSUME IInv, [Next]_vars
               PROVE  [Log!Next]_(Log!dlVars)
      OBVIOUS
  <2>1. ASSUME NEW S \in SUBSET Events, Enqueue(S)
        PROVE  Log!Next
    <3>1. Log!Accept(S)
        BY <2>1 DEF Enqueue, Log!Accept
    <3> QED
        BY <3>1 DEF Log!Next
  <2>2. ASSUME NEW w \in Relays, Commit(w) \/ CommitUnacknowledged(w)
        PROVE  [Log!Next]_(Log!dlVars)
    <3>1. row[w] \in outbox /\ row[w] \in Events
        BY <2>2 DEF Commit, CommitUnacknowledged, IInv, RowHeld, TypeOK
    <3>2. outbox' = outbox /\ eventLog' = eventLog \cup {row[w]}
        BY <2>2 DEF Commit, CommitUnacknowledged, CommitRow
    <3>3. CASE row[w] \in eventLog
        BY <3>2, <3>3 DEF Log!dlVars
    <3>4. CASE row[w] \notin eventLog
      <4>1. Log!Promote(row[w])
          BY <3>1, <3>2, <3>4 DEF Log!Promote
      <4> QED
          BY <3>1, <4>1 DEF Log!Next
    <3> QED
        BY <3>3, <3>4
  <2>3. ASSUME NEW w \in Relays,
               \/ Claim(w) \/ (\E e \in Events : LogEvent(w, e) \/ RejectEnvelope(w, e))
               \/ Deliver(w) \/ Mark(w) \/ RecordError(w) \/ AttemptFails(w) \/ Crash(w)
        PROVE  UNCHANGED <<outbox, eventLog>>
      BY <2>3 DEF Claim, LogEvent, RejectEnvelope, Deliver, Mark, RecordError, AttemptFails, Crash
  <2>4. CASE Tick \/ UNCHANGED vars
      BY <2>4 DEF Tick, vars, Log!dlVars
  <2> QED
      BY <2>1, <2>2, <2>3, <2>4 DEF Next, Pass, Log!dlVars
<1> QED
    BY <1>1, <1>2, SpecIInv, PTL DEF Spec, Log!Safe

=============================================================================
