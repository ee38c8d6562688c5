----------------------------- MODULE DurableLog -----------------------------
(***************************************************************************)
(* What the transactional outbox promises its callers, with no rows,       *)
(* leases, workers or sessions: a unit of work has all of its events       *)
(* accepted at once or none of them, an accepted event is appended to the  *)
(* durable log at most once, and it is never dropped.                      *)
(***************************************************************************)
EXTENDS Naturals

CONSTANTS
    Events,     \* the domain events the system may ever raise
    Poison      \* events whose promotion raises every time it is tried

VARIABLES
    accepted,   \* events a committed unit of work has raised
    logged      \* events in the append-only log

dlVars == <<accepted, logged>>

Init == accepted = {} /\ logged = {}

Accept(S) ==
    /\ S # {}
    /\ S \cap accepted = {}
    /\ accepted' = accepted \cup S
    /\ UNCHANGED logged

Promote(e) ==
    /\ e \in accepted \ logged
    /\ logged' = logged \cup {e}
    /\ UNCHANGED accepted

Next ==
    \/ \E S \in SUBSET Events : Accept(S)
    \/ \E e \in Events : Promote(e)

Safe == Init /\ [][Next]_dlVars

Spec == Safe /\ \A e \in Events \ Poison : WF_dlVars(Promote(e))

=============================================================================
