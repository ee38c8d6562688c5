----------------------------- MODULE OutboxRelay -----------------------------
(***************************************************************************)
(* The outbox table, the event log and the relay passes that move rows     *)
(* from one to the other: application/common/outbox_relay.py, driven by    *)
(* apps/worker/__main__.py, with the bus of application/common/event_bus.py *)
(* and the rows that UnitOfWork.commit inserts.                            *)
(*                                                                         *)
(* Several relays run at once: a rolling deployment overlaps two worker    *)
(* pods, and nothing stops a second one.  Every step is one database       *)
(* statement or one handler call, so the passes interleave as the row and  *)
(* index locks of PostgreSQL (READ COMMITTED) let them.                    *)
(***************************************************************************)
EXTENDS Naturals, FiniteSets

CONSTANTS
    Events,       \* rows by their place in (occurred_at, id) order
    Relays,       \* relay workers
    Subscribers,  \* how many sync handlers the bus has for these events
    BatchLimit,   \* LIMIT of the claim
    LeaseTicks,   \* clock ticks a claim stays fresh (the five minutes)
    Poison,       \* rows whose envelope from_dict can never rebuild
    MaxFaults     \* bound on crashes and on attempts that raise

ASSUME OutboxAssumption ==
    /\ Events \subseteq Nat \ {0}
    /\ Poison \subseteq Events
    /\ Subscribers \in Nat
    /\ BatchLimit \in Nat \ {0}
    /\ LeaseTicks \in Nat
    /\ MaxFaults \in Nat

VARIABLES
    prompt,     \* whether, in this behaviour, every pass ends within its lease
    outbox,     \* rows that some unit of work has committed
    published,  \* rows with published_at set
    age,        \* age[e]: ticks since locked_at, or Unlocked
    eventLog,   \* committed event_log rows, by event_id
    effects,    \* effects[e][h]: what handler h did for e outside the database
    pc,         \* where each relay is in run_once
    batch,      \* claimed rows a pass has still to go through
    row,        \* the row a pass is working on
    handled,    \* how many handlers have returned for that row
    faults      \* faults so far, at most MaxFaults

relayVars == <<pc, batch, row, handled>>
vars == <<prompt, outbox, published, age, eventLog, effects, pc, batch, row, handled, faults>>

-----------------------------------------------------------------------------

Handlers == 1 .. Subscribers
Expired == LeaseTicks + 1
Unlocked == LeaseTicks + 2
NoRow == 0

\* The phases of one pass.  From "logged" on the row's transaction is open and
\* holds its INSERT into event_log; from "marked" on it also holds the outbox
\* row's lock.
Phases == {"idle", "working", "logged", "marked", "failed"}
InTx(w) == pc[w] \in {"logged", "marked"}

\* A count of external effects, told apart as never, once, more than once.
Saturated(n) == IF n = 2 THEN 2 ELSE n + 1

TypeOK ==
    /\ prompt \in BOOLEAN
    /\ outbox \in SUBSET Events
    /\ published \in SUBSET outbox
    /\ age \in [Events -> 0 .. Unlocked]
    /\ eventLog \in SUBSET Events
    /\ effects \in [Events -> [Handlers -> 0 .. 2]]
    /\ pc \in [Relays -> Phases]
    /\ batch \in [Relays -> SUBSET Events]
    /\ row \in [Relays -> Events \cup {NoRow}]
    /\ handled \in [Relays -> 0 .. Subscribers]
    /\ faults \in 0 .. MaxFaults

Init ==
    /\ prompt \in BOOLEAN
    /\ outbox = {}
    /\ published = {}
    /\ age = [e \in Events |-> Unlocked]
    /\ eventLog = {}
    /\ effects = [e \in Events |-> [h \in Handlers |-> 0]]
    /\ pc = [w \in Relays |-> "idle"]
    /\ batch = [w \in Relays |-> {}]
    /\ row = [w \in Relays |-> NoRow]
    /\ handled = [w \in Relays |-> 0]
    /\ faults = 0

-----------------------------------------------------------------------------
(***************************************************************************)
(* Row locks.                                                              *)
(***************************************************************************)

\* Rows whose outbox tuple another open transaction has updated.
LockedByOther(w) == {row[v] : v \in {x \in Relays \ {w} : pc[x] = "marked"}}

\* Faulty variant: event_log without its unique index.
InsertNeverWaits(w, e) == FALSE

\* Faulty variant: one transaction for a whole batch, so that an INSERT also waits
\* for a pass that has the row still before it.
InsertWaitsForBatch(w, e) == \E v \in Relays \ {w} : e \in batch[v]

\* The unique index on event_log.event_id: an INSERT of an id that another
\* transaction has inserted and not yet committed waits for that transaction.
\* Once the id is committed, ON CONFLICT DO NOTHING returns at once.
InsertWaits(w, e) ==
    /\ e \notin eventLog
    /\ \E v \in Relays \ {w} : InTx(v) /\ row[v] = e

-----------------------------------------------------------------------------
(***************************************************************************)
(* The producer and the clock.                                             *)
(***************************************************************************)

\* UnitOfWork.commit: every collected event becomes an outbox row in the
\* transaction of the business write.
Enqueue(S) ==
    /\ S # {}
    /\ S \cap outbox = {}
    /\ outbox' = outbox \cup S
    /\ UNCHANGED <<prompt, published, age, eventLog, effects, relayVars, faults>>

\* Time passes.  A claim ages until the claim query would take the row again.
Tick ==
    /\ \E e \in Events : age[e] < Expired
    /\ prompt => \A w \in Relays : \A e \in batch[w] : age[e] # LeaseTicks
    /\ age' = [e \in Events |-> IF age[e] < Expired THEN age[e] + 1 ELSE age[e]]
    /\ UNCHANGED <<prompt, outbox, published, eventLog, effects, relayVars, faults>>

-----------------------------------------------------------------------------
(***************************************************************************)
(* One relay pass: OutboxRelay.run_once.                                   *)
(***************************************************************************)

\* Faulty variant: the claim never takes over an expired lease.
ClaimableUnlockedOnly(w) ==
    {e \in outbox \ published : age[e] = Unlocked} \ LockedByOther(w)

\* Faulty variant: the claim does not look at locked_at.
ClaimableAnyLease(w) == (outbox \ published) \ LockedByOther(w)

\* Faulty variant: the claim does not look at published_at.
ClaimablePublishedToo(w) == {e \in outbox : age[e] >= Expired} \ LockedByOther(w)

\* Unpublished rows whose lease is absent or too old, less those SKIP LOCKED
\* passes over.
Claimable(w) ==
    {e \in outbox \ published : age[e] >= Expired} \ LockedByOther(w)

\* ORDER BY occurred_at, id LIMIT BatchLimit.
Oldest(S) ==
    {C \in SUBSET S :
        /\ Cardinality(C) = IF Cardinality(S) < BatchLimit THEN Cardinality(S) ELSE BatchLimit
        /\ \A e \in C, f \in S \ C : e < f}

\* The claim stamps locked_at and commits, so the lease outlives the row lock.
\* The rows come back from RETURNING in no particular order.
Claim(w) ==
    /\ pc[w] = "idle"
    /\ Claimable(w) # {}
    /\ \E C \in Oldest(Claimable(w)) :
        /\ batch' = [batch EXCEPT ![w] = C]
        /\ age' = [e \in Events |-> IF e \in C THEN 0 ELSE age[e]]
    /\ pc' = [pc EXCEPT ![w] = "working"]
    /\ UNCHANGED <<prompt, outbox, published, eventLog, effects, row, handled, faults>>

\* from_dict, then INSERT INTO event_log.  Nothing looks again at the row's
\* lease or at published_at.
LogEvent(w, e) ==
    /\ pc[w] = "working"
    /\ e \in batch[w] \ Poison
    /\ ~InsertWaits(w, e)
    /\ pc' = [pc EXCEPT ![w] = "logged"]
    /\ row' = [row EXCEPT ![w] = e]
    /\ handled' = [handled EXCEPT ![w] = 0]
    /\ UNCHANGED <<prompt, outbox, published, age, eventLog, effects, batch, faults>>

\* from_dict raises before any statement of the row's transaction.
RejectEnvelope(w, e) ==
    /\ pc[w] = "working"
    /\ e \in batch[w] \cap Poison
    /\ pc' = [pc EXCEPT ![w] = "failed"]
    /\ row' = [row EXCEPT ![w] = e]
    /\ UNCHANGED <<prompt, outbox, published, age, eventLog, effects, batch, handled, faults>>

\* Faulty variant: the handler loop runs on past its last handler.
DeliverPastEnd(w) ==
    /\ pc[w] = "logged"
    /\ handled' = [handled EXCEPT ![w] = @ + 1]
    /\ UNCHANGED <<prompt, outbox, published, age, eventLog, effects, pc, batch, row, faults>>

\* publish_sync runs the handlers one after the other; what one does outside
\* the session (a page) no rollback takes back.  A handler may also write
\* follow-up rows in the session, which a commit brings: Enqueue stands for any
\* producer, these included (no handler is subscribed outside the tests).
Deliver(w) ==
    /\ pc[w] = "logged"
    /\ handled[w] < Subscribers
    /\ handled' = [handled EXCEPT ![w] = @ + 1]
    /\ effects' = [effects EXCEPT ![row[w]][handled[w] + 1] = Saturated(@)]
    /\ UNCHANGED <<prompt, outbox, published, age, eventLog, pc, batch, row, faults>>

\* Faulty variant: the row is marked while handlers are still to run.
MarkBeforeDelivery(w) ==
    /\ pc[w] = "logged"
    /\ row[w] \notin LockedByOther(w)
    /\ pc' = [pc EXCEPT ![w] = "marked"]
    /\ UNCHANGED <<prompt, outbox, published, age, eventLog, effects, batch, row, handled, faults>>

\* MARK_PUBLISHED, by id alone.
Mark(w) ==
    /\ pc[w] = "logged"
    /\ handled[w] = Subscribers
    /\ row[w] \notin LockedByOther(w)
    /\ pc' = [pc EXCEPT ![w] = "marked"]
    /\ UNCHANGED <<prompt, outbox, published, age, eventLog, effects, batch, row, handled, faults>>

\* The pass is done with its row: on to the next one, or out of run_once.
NextRow(w) ==
    /\ batch' = [batch EXCEPT ![w] = @ \ {row[w]}]
    /\ row' = [row EXCEPT ![w] = NoRow]
    /\ handled' = [handled EXCEPT ![w] = 0]
    /\ pc' = [pc EXCEPT ![w] = IF batch[w] = {row[w]} THEN "idle" ELSE "working"]

\* What the row's transaction writes becomes visible at once.
CommitRow(w) ==
    /\ eventLog' = eventLog \cup {row[w]}
    /\ published' = published \cup {row[w]}
    /\ age' = [age EXCEPT ![row[w]] = Unlocked]

Commit(w) ==
    /\ pc[w] = "marked"
    /\ CommitRow(w)
    /\ NextRow(w)
    /\ UNCHANGED <<prompt, outbox, effects, faults>>

-----------------------------------------------------------------------------
(***************************************************************************)
(* What goes wrong.  Each of these uses up one of MaxFaults.               *)
(***************************************************************************)

Fault == faults < MaxFaults /\ faults' = faults + 1

\* A statement or a handler raises and the row's transaction rolls back.  A
\* handler may have reached the outside world before it raised.
AttemptFails(w) ==
    /\ Fault
    /\ InTx(w)
    /\ pc' = [pc EXCEPT ![w] = "failed"]
    /\ \/ UNCHANGED effects
       \/ /\ pc[w] = "logged"
          /\ handled[w] < Subscribers
          /\ effects' = [effects EXCEPT ![row[w]][handled[w] + 1] = Saturated(@)]
    /\ UNCHANGED <<prompt, outbox, published, age, eventLog, batch, row, handled>>

\* The server commits and the acknowledgement is lost: session.commit raises.
CommitUnacknowledged(w) ==
    /\ Fault
    /\ pc[w] = "marked"
    /\ CommitRow(w)
    /\ pc' = [pc EXCEPT ![w] = "failed"]
    /\ UNCHANGED <<prompt, outbox, effects, batch, row, handled>>

\* RECORD_ERROR, in a session of its own and by id alone: it drops whatever
\* lease the row has, its own or a later claimant's.
RecordError(w) ==
    /\ pc[w] = "failed"
    /\ row[w] \notin LockedByOther(w)
    /\ age' = [age EXCEPT ![row[w]] = Unlocked]
    /\ NextRow(w)
    /\ UNCHANGED <<prompt, outbox, published, eventLog, effects, faults>>

\* The process dies, or rollback or _record_error raises out of run_once.  The
\* open transaction is gone; the leases of the rows not yet done are not.
Crash(w) ==
    /\ Fault
    /\ pc[w] # "idle"
    /\ pc' = [pc EXCEPT ![w] = "idle"]
    /\ batch' = [batch EXCEPT ![w] = {}]
    /\ row' = [row EXCEPT ![w] = NoRow]
    /\ handled' = [handled EXCEPT ![w] = 0]
    /\ UNCHANGED <<prompt, outbox, published, age, eventLog, effects>>

-----------------------------------------------------------------------------

\* The steps a running worker takes without being asked.
Pass(w) ==
    \/ Claim(w)
    \/ \E e \in Events : LogEvent(w, e) \/ RejectEnvelope(w, e)
    \/ Deliver(w)
    \/ Mark(w)
    \/ Commit(w)
    \/ RecordError(w)

Next ==
    \/ \E S \in SUBSET Events : Enqueue(S)
    \/ Tick
    \/ \E w \in Relays :
        \/ Pass(w)
        \/ AttemptFails(w)
        \/ CommitUnacknowledged(w)
        \/ Crash(w)

Spec == Init /\ [][Next]_vars

\* The worker loop calls run_once every five seconds for as long as the pod
\* lives, and the database clock moves.  Faults and producers owe nothing.
FairSpec == Spec /\ WF_vars(Tick) /\ \A w \in Relays : WF_vars(Pass(w))

-----------------------------------------------------------------------------
(***************************************************************************)
(* Properties.                                                             *)
(***************************************************************************)

\* A published row has been through every handler at least once, by whichever
\* worker and after however many failed attempts.
AtLeastOnce ==
    \A e \in published : \A h \in Handlers : effects[e][h] > 0

\* Two passes are inside the same row's transaction together only when that
\* row was already promoted: the first delivery of an event is never doubled
\* by a concurrent one, whatever has become of the leases.
FirstDeliveryAlone ==
    \A v, w \in Relays :
        (v # w /\ InTx(v) /\ InTx(w) /\ row[v] = row[w]) => row[v] \in eventLog

\* A published row is never leased again, so no later claim can find it, even
\* after a slow worker's RECORD_ERROR or a second MARK_PUBLISHED.
PublishedUnleased == \A e \in published : age[e] = Unlocked

\* When every pass ends within its lease, no row is in two workers' batches.
OneHolder ==
    prompt => \A v, w \in Relays : v # w => batch[v] \cap batch[w] = {}

\* When every pass ends within its lease, a handler sees an event twice only
\* after something failed.
OnlyFaultsRepeat ==
    (prompt /\ faults = 0) =>
        \A e \in Events : \A h \in Handlers : effects[e][h] < 2

\* No pass hangs: run_once returns, although its INSERT, its MARK_PUBLISHED and its
\* RECORD_ERROR may each wait for the transaction of another pass over the same
\* rows, for a transaction spans one row and the waiting never goes in a circle.
PassesEnd == \A w \in Relays : []<>(pc[w] = "idle")

\* "consumers dedupe via consumer_offsets": no handler acts on an event twice.
HandlersDedupe ==
    \A e \in Events : \A h \in Handlers : effects[e][h] < 2

\* The log the rest of the system reads: rows accepted, events logged.
Log == INSTANCE DurableLog WITH accepted <- outbox, logged <- eventLog

\* The relay implements the durable log, its progress included.
ImplementsLog == Log!Spec

=============================================================================
