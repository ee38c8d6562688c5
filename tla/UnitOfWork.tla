----------------------------- MODULE UnitOfWork -----------------------------
(***************************************************************************)
(* The transactional boundary every use case writes through:               *)
(* application/common/unit_of_work.py, with the payload offload of         *)
(* adapters/object_store/protocol.py and garage.py.                        *)
(*                                                                         *)
(* A unit of work collects domain events in memory.  On leaving its block  *)
(* it wraps them in envelopes, moves payloads over the threshold to the    *)
(* object store, adds the outbox rows to the session and commits them with *)
(* the business rows.  The object store takes no part in the transaction.  *)
(***************************************************************************)
CONSTANTS
    Units,      \* units of work, each used once, in an async with block
    Events,     \* events the use cases may raise
    Large,      \* those whose payload is over BLOB_JSON_THRESHOLD_BYTES
    WithStore   \* units built with a blob store

ASSUME UnitAssumption ==
    /\ Large \subseteq Events
    /\ WithStore \subseteq Units

VARIABLES
    progress,   \* progress[u]: where unit u is
    dirty,      \* dirty[u]: the body has written business rows
    collected,  \* collected[u]: the events of collect()
    staged,     \* staged[u]: outbox rows added to the session
    tables,     \* units whose business rows are committed
    enrolled,   \* committed outbox rows
    blobs       \* objects in the store, keyed by their event

unitVars == <<progress, dirty, collected, staged, tables, enrolled, blobs>>

-----------------------------------------------------------------------------

\* "raised" is every way out of the block that is not an acknowledged commit.
UnitPhases == {"body", "enrolling", "committed", "raised"}

\* An outbox row holds the payload or, for a large one, a reference to its object.
OutboxRows == {r \in [event : Events, offloaded : BOOLEAN] : r.offloaded => r.event \in Large}

UnitTypeOK ==
    /\ progress \in [Units -> UnitPhases]
    /\ dirty \in [Units -> BOOLEAN]
    /\ collected \in [Units -> SUBSET Events]
    /\ staged \in [Units -> SUBSET OutboxRows]
    /\ tables \subseteq Units
    /\ enrolled \subseteq OutboxRows
    /\ blobs \subseteq Events

UnitInit ==
    /\ progress = [u \in Units |-> "body"]
    /\ dirty = [u \in Units |-> FALSE]
    /\ collected = [u \in Units |-> {}]
    /\ staged = [u \in Units |-> {}]
    /\ tables = {}
    /\ enrolled = {}
    /\ blobs = {}

-----------------------------------------------------------------------------
(***************************************************************************)
(* The block.                                                              *)
(***************************************************************************)

\* The body executes statements on the session.
Execute(u) ==
    /\ progress[u] = "body"
    /\ ~dirty[u]
    /\ dirty' = [dirty EXCEPT ![u] = TRUE]
    /\ UNCHANGED <<progress, collected, staged, tables, enrolled, blobs>>

\* An event is raised once, by one unit: envelope ids are fresh.
Collect(u, e) ==
    /\ progress[u] = "body"
    /\ \A v \in Units : e \notin collected[v]
    /\ collected' = [collected EXCEPT ![u] = @ \cup {e}]
    /\ UNCHANGED <<progress, dirty, staged, tables, enrolled, blobs>>

\* The block ends without an exception: __aexit__ calls commit.
Exit(u) ==
    /\ progress[u] = "body"
    /\ progress' = [progress EXCEPT ![u] = "enrolling"]
    /\ UNCHANGED <<dirty, collected, staged, tables, enrolled, blobs>>

-----------------------------------------------------------------------------
(***************************************************************************)
(* commit().                                                               *)
(***************************************************************************)

\* The events whose rows are still to be added.  Their order is immaterial: the
\* envelopes of one commit share occurred_at, and their ids are random.
Pending(u) == {e \in collected[u] : \A r \in staged[u] : r.event # e}

\* Faulty variant: the threshold is not looked at.
OffloadsAll(u, e) == u \in WithStore

Offloads(u, e) == u \in WithStore /\ e \in Large

AddRow(u, e, offloaded) ==
    staged' = [staged EXCEPT ![u] = @ \cup {[event |-> e, offloaded |-> offloaded]}]

\* Faulty variant: the reference is enrolled and the upload left for later.
EnrollBeforeUpload(u, e) ==
    /\ progress[u] = "enrolling"
    /\ e \in Pending(u) /\ Offloads(u, e)
    /\ AddRow(u, e, TRUE)
    /\ UNCHANGED <<progress, dirty, collected, tables, enrolled, blobs>>

\* maybe_blob_json puts the object, then the row that refers to it is added.
EnrollReference(u, e) ==
    /\ progress[u] = "enrolling"
    /\ e \in Pending(u) /\ Offloads(u, e)
    /\ blobs' = blobs \cup {e}
    /\ AddRow(u, e, TRUE)
    /\ UNCHANGED <<progress, dirty, collected, tables, enrolled>>

\* A small payload, or a unit without a store, keeps it in the row.
EnrollInline(u, e) ==
    /\ progress[u] = "enrolling"
    /\ e \in Pending(u) /\ ~Offloads(u, e)
    /\ AddRow(u, e, FALSE)
    /\ UNCHANGED <<progress, dirty, collected, tables, enrolled, blobs>>

\* Faulty variant: commits whatever rows there are.
ReadyEarly(u) == progress[u] = "enrolling"

Ready(u) == progress[u] = "enrolling" /\ Pending(u) = {}

\* Faulty variant: the outbox is written by a transaction of its own.
PersistOutboxOnly(u) ==
    /\ enrolled' = enrolled \cup staged[u]
    /\ UNCHANGED tables

\* session.commit flushes the outbox rows into the business transaction.
Persist(u) ==
    /\ enrolled' = enrolled \cup staged[u]
    /\ tables' = IF dirty[u] THEN tables \cup {u} ELSE tables

CommitUnit(u) ==
    /\ Ready(u)
    /\ Persist(u)
    /\ progress' = [progress EXCEPT ![u] = "committed"]
    /\ UNCHANGED <<dirty, collected, staged, blobs>>

-----------------------------------------------------------------------------
(***************************************************************************)
(* Ways out.                                                               *)
(***************************************************************************)

\* The body, a flush or the process fails; the transaction rolls back.
Raise(u) ==
    /\ progress[u] \in {"body", "enrolling"}
    /\ progress' = [progress EXCEPT ![u] = "raised"]
    /\ UNCHANGED <<dirty, collected, staged, tables, enrolled, blobs>>

\* Faulty variant: an upload that raises is papered over with an inline payload.
UploadFallsBack(u, e) ==
    /\ progress[u] = "enrolling"
    /\ e \in Pending(u) /\ Offloads(u, e)
    /\ blobs' \in {blobs, blobs \cup {e}}
    /\ AddRow(u, e, FALSE)
    /\ UNCHANGED <<progress, dirty, collected, tables, enrolled>>

\* An upload raises, its object perhaps stored all the same.
UploadRaises(u, e) ==
    /\ progress[u] = "enrolling"
    /\ e \in Pending(u) /\ Offloads(u, e)
    /\ blobs' \in {blobs, blobs \cup {e}}
    /\ progress' = [progress EXCEPT ![u] = "raised"]
    /\ UNCHANGED <<dirty, collected, staged, tables, enrolled>>

\* The server commits and the acknowledgement is lost.
CommitUnacknowledged(u) ==
    /\ Ready(u)
    /\ Persist(u)
    /\ progress' = [progress EXCEPT ![u] = "raised"]
    /\ UNCHANGED <<dirty, collected, staged, blobs>>

-----------------------------------------------------------------------------

UnitNext ==
    \E u \in Units :
        \/ Execute(u)
        \/ Exit(u)
        \/ \E e \in Events :
            \/ Collect(u, e)
            \/ EnrollReference(u, e)
            \/ EnrollInline(u, e)
            \/ UploadRaises(u, e)
        \/ CommitUnit(u)
        \/ Raise(u)
        \/ CommitUnacknowledged(u)

UnitSpec == UnitInit /\ [][UnitNext]_unitVars

-----------------------------------------------------------------------------
(***************************************************************************)
(* Properties.                                                             *)
(***************************************************************************)

Logged == {r.event : r \in enrolled}

\* "Durable iff the transaction commits": business rows are visible with all of
\* the unit's events or not at all, and a unit that wrote has no events without
\* its rows.
AllOrNothing ==
    \A u \in Units :
        /\ u \in tables => collected[u] \subseteq Logged
        /\ dirty[u] /\ collected[u] \cap Logged # {} => u \in tables

\* Leaving the block without an exception means every event is in the outbox.
NothingForgotten ==
    \A u \in Units : progress[u] = "committed" => collected[u] \subseteq Logged

\* A row never refers to an object that is not in the store, at any moment a
\* relay could read it.
ReferencesResolve == \A r \in enrolled : r.offloaded => r.event \in blobs

\* Objects that no row refers to are left by units that raised, never by a
\* commit.
OrphansComeFromFailures ==
    \A u \in Units : progress[u] = "committed" =>
        \A e \in collected[u] \cap blobs : [event |-> e, offloaded |-> TRUE] \in enrolled

=============================================================================
