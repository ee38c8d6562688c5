--------------------------- MODULE AdvisorCouncil ---------------------------
(***************************************************************************)
(* The advisor council: apps/worker/jobs/advisor_views_job.py with the     *)
(* agents of application/advisors/.                                        *)
(*                                                                         *)
(* A run takes the held tickers in order, builds a point-in-time snapshot  *)
(* of each, and for every persona looks the snapshot up in advisor_views,  *)
(* asks the model if it is not there, and inserts the answer.  Each look-  *)
(* up and each insert is a transaction of its own.  The CronJob's pod is   *)
(* killed after half an hour or fails, and is started again; a run by hand *)
(* may overlap it.                                                         *)
(*                                                                         *)
(* Tickers and personas are numbered in the order the loops take them.  A  *)
(* snapshot is its ticker, the day it is as of, and how many filings it    *)
(* shows; its hash is taken to be injective.  The market capitalisations   *)
(* and the price-earnings ratios in it are left out: they come from closes *)
(* of the filing dates, which the market data may add or correct within a  *)
(* day, and then the hash is another one.                                  *)
(***************************************************************************)
EXTENDS Naturals, Sequences

CONSTANTS
    Tickers,        \* how many tickers may be held
    Personas,       \* size of ADVISOR_REGISTRY
    MinPeriods,     \* MIN_PERIODS: filings a snapshot needs
    MaxFilings,     \* bound on a company's filings
    LastDay,        \* bound on the days that pass
    Pods,           \* runs that may be open together: the CronJob's and one by hand
    MaxLosses       \* bound on runs that die

ASSUME CouncilAssumption ==
    /\ Tickers \in Nat /\ Personas \in Nat
    /\ MinPeriods \in Nat /\ MaxFilings \in Nat /\ LastDay \in Nat /\ MaxLosses \in Nat

VARIABLES
    date,       \* today
    filed,      \* filed[t]: t's filings that are public
    views,      \* the advisor_views rows, in the order of their created_at
    calls,      \* calls[k]: how often the model was paid for key k
    at, asOf, tickersLeft, personasLeft, snap, built,
    losses,     \* runs that died
    wasted,     \* keys whose answer was paid for and not stored
    overlap     \* two runs have been open together

\* Per run: the step it is at, the date its clock read, the held tickers and
\* the personas still to go, the snapshot in hand, and the snapshots built.
podVars == <<at, asOf, tickersLeft, personasLeft, snap, built>>
councilVars == <<date, filed, views, calls, podVars, losses, wasted, overlap>>

-----------------------------------------------------------------------------

Ticker == 1 .. Tickers
Persona == 1 .. Personas
Snapshot == [ticker : Ticker, asOf : 0 .. LastDay, filings : 0 .. MaxFilings]

\* The unique key of advisor_views (one model throughout).
ViewKey == [persona : Persona, snap : Snapshot]
ViewRow == [key : ViewKey, abstained : BOOLEAN]
NoSnapshot == [ticker |-> 0, asOf |-> 0, filings |-> 0]

Steps == {"idle", "snapshot", "lookup", "asking", "opinion", "abstention"}

CouncilTypeOK ==
    /\ date \in 0 .. LastDay
    /\ filed \in [Ticker -> 0 .. MaxFilings]
    /\ views \in Seq(ViewRow)
    /\ calls \in [ViewKey -> Nat]
    /\ at \in [Pods -> Steps]
    /\ asOf \in [Pods -> 0 .. LastDay]
    /\ tickersLeft \in [Pods -> SUBSET Ticker]
    /\ personasLeft \in [Pods -> SUBSET Persona]
    /\ snap \in [Pods -> Snapshot \cup {NoSnapshot}]
    /\ built \in [Pods -> SUBSET Snapshot]
    /\ losses \in 0 .. MaxLosses
    /\ wasted \in SUBSET ViewKey
    /\ overlap \in BOOLEAN

CouncilInit ==
    /\ date = 0
    /\ filed = [t \in Ticker |-> 0]
    /\ views = <<>>
    /\ calls = [k \in ViewKey |-> 0]
    /\ at = [p \in Pods |-> "idle"]
    /\ asOf = [p \in Pods |-> 0]
    /\ tickersLeft = [p \in Pods |-> {}]
    /\ personasLeft = [p \in Pods |-> {}]
    /\ snap = [p \in Pods |-> NoSnapshot]
    /\ built = [p \in Pods |-> {}]
    /\ losses = 0
    /\ wasted = {}
    /\ overlap = FALSE

-----------------------------------------------------------------------------
(***************************************************************************)
(* The world.                                                              *)
(***************************************************************************)

NewFiling ==
    /\ \E t \in Ticker : filed[t] < MaxFilings /\ filed' = [filed EXCEPT ![t] = @ + 1]
    /\ UNCHANGED <<date, views, calls, podVars, losses, wasted, overlap>>

Midnight ==
    /\ date < LastDay
    /\ date' = date + 1
    /\ UNCHANGED <<filed, views, calls, podVars, losses, wasted, overlap>>

-----------------------------------------------------------------------------
(***************************************************************************)
(* One run.                                                                *)
(***************************************************************************)

First(S) == CHOOSE n \in S : \A m \in S : n <= m

\* The key of the view the run is about to look up, ask for or store.
Key(p) == [persona |-> First(personasLeft[p]), snap |-> snap[p]]

Stored(k) == \E i \in DOMAIN views : views[i].key = k

\* Configured, and with something held: the clock and the positions are read
\* once.  Nothing held ends the run at once.
StartRun(p) ==
    /\ at[p] = "idle"
    /\ \E held \in SUBSET Ticker \ {{}} : tickersLeft' = [tickersLeft EXCEPT ![p] = held]
    /\ asOf' = [asOf EXCEPT ![p] = date]
    /\ built' = [built EXCEPT ![p] = {}]
    /\ at' = [at EXCEPT ![p] = "snapshot"]
    /\ overlap' = (overlap \/ \E q \in Pods \ {p} : at[q] # "idle")
    /\ UNCHANGED <<date, filed, views, calls, personasLeft, snap, losses, wasted>>

\* build_snapshot: as of the run's date, whatever the date is by now.
BuildSnapshot(p) ==
    LET t == First(tickersLeft[p])
        s == [ticker |-> t, asOf |-> asOf[p], filings |-> filed[t]]
    IN  /\ at[p] = "snapshot"
        /\ tickersLeft[p] # {}
        /\ filed[t] >= MinPeriods
        /\ snap' = [snap EXCEPT ![p] = s]
        /\ built' = [built EXCEPT ![p] = @ \cup {s}]
        /\ personasLeft' = [personasLeft EXCEPT ![p] = Persona]
        /\ at' = [at EXCEPT ![p] = "lookup"]
        /\ UNCHANGED <<date, filed, views, calls, asOf, tickersLeft, losses, wasted, overlap>>

\* InsufficientDataError, MassiveError or EDGARError: this ticker is skipped.
SkipTicker(p) ==
    /\ at[p] = "snapshot"
    /\ tickersLeft[p] # {}
    /\ tickersLeft' = [tickersLeft EXCEPT ![p] = @ \ {First(@)}]
    /\ UNCHANGED <<date, filed, views, calls, at, asOf, personasLeft, snap, built, losses,
                   wasted, overlap>>

\* Faulty variant: an abstention does not count as an answer.
CachedViewExistsOpinions(k) == \E i \in DOMAIN views : views[i].key = k /\ ~views[i].abstained

\* _cached_view_exists: an abstention is an answer too.
CachedViewExists(k) == Stored(k)

\* On to the next persona.
NextPersona(p) ==
    /\ personasLeft' = [personasLeft EXCEPT ![p] = @ \ {First(@)}]
    /\ at' = [at EXCEPT ![p] = "lookup"]

CacheHit(p) ==
    /\ at[p] = "lookup"
    /\ personasLeft[p] # {}
    /\ CachedViewExists(Key(p))
    /\ NextPersona(p)
    /\ UNCHANGED <<date, filed, views, calls, asOf, tickersLeft, snap, built, losses, wasted,
                   overlap>>

\* form_view sends the request.
Ask(p) ==
    /\ at[p] = "lookup"
    /\ personasLeft[p] # {}
    /\ ~CachedViewExists(Key(p))
    /\ calls' = [calls EXCEPT ![Key(p)] = @ + 1]
    /\ at' = [at EXCEPT ![p] = "asking"]
    /\ UNCHANGED <<date, filed, views, asOf, tickersLeft, personasLeft, snap, built, losses,
                   wasted, overlap>>

\* The answer, or the lack of one: any failure of the call, of its shape, of the
\* JSON in it, of the stance or of the confidence is an abstention.
Answer(p) ==
    /\ at[p] = "asking"
    /\ \E outcome \in {"opinion", "abstention"} : at' = [at EXCEPT ![p] = outcome]
    /\ UNCHANGED <<date, filed, views, calls, asOf, tickersLeft, personasLeft, snap, built,
                   losses, wasted, overlap>>

\* Faulty variant: an abstention is not worth a row.
PersistViewOpinions(p) ==
    /\ at[p] \in {"opinion", "abstention"}
    /\ ~Stored(Key(p))
    /\ views' = IF at[p] = "opinion"
                THEN Append(views, [key |-> Key(p), abstained |-> FALSE]) ELSE views
    /\ NextPersona(p)
    /\ UNCHANGED <<date, filed, calls, asOf, tickersLeft, snap, built, losses, wasted, overlap>>

\* _persist_view: one INSERT and its commit.
PersistView(p) ==
    /\ at[p] \in {"opinion", "abstention"}
    /\ ~Stored(Key(p))
    /\ views' = Append(views, [key |-> Key(p), abstained |-> at[p] = "abstention"])
    /\ NextPersona(p)
    /\ UNCHANGED <<date, filed, calls, asOf, tickersLeft, snap, built, losses, wasted, overlap>>

\* Every persona has been through this ticker.
NextTicker(p) ==
    /\ at[p] = "lookup"
    /\ personasLeft[p] = {}
    /\ tickersLeft' = [tickersLeft EXCEPT ![p] = @ \ {First(@)}]
    /\ at' = [at EXCEPT ![p] = "snapshot"]
    /\ UNCHANGED <<date, filed, views, calls, asOf, personasLeft, snap, built, losses, wasted,
                   overlap>>

\* The pod's variables go with the pod.
EndPod(p) ==
    /\ at' = [at EXCEPT ![p] = "idle"]
    /\ asOf' = [asOf EXCEPT ![p] = 0]
    /\ tickersLeft' = [tickersLeft EXCEPT ![p] = {}]
    /\ personasLeft' = [personasLeft EXCEPT ![p] = {}]
    /\ snap' = [snap EXCEPT ![p] = NoSnapshot]
    /\ built' = [built EXCEPT ![p] = {}]

Finish(p) ==
    /\ at[p] = "snapshot"
    /\ tickersLeft[p] = {}
    /\ EndPod(p)
    /\ UNCHANGED <<date, filed, views, calls, losses, wasted, overlap>>

\* The key whose answer dies with the run, if any.
InHand(p) == IF at[p] \in {"asking", "opinion", "abstention"} THEN {Key(p)} ELSE {}

\* The INSERT finds the key another run has stored since this one looked: the
\* IntegrityError ends the whole run.
UniqueViolation(p) ==
    /\ at[p] \in {"opinion", "abstention"}
    /\ Stored(Key(p))
    /\ wasted' = wasted \cup InHand(p)
    /\ EndPod(p)
    /\ UNCHANGED <<date, filed, views, calls, losses, overlap>>

\* The deadline, a lost database, an exception no handler names.
RunDies(p) ==
    /\ at[p] # "idle"
    /\ losses < MaxLosses
    /\ losses' = losses + 1
    /\ wasted' = wasted \cup InHand(p)
    /\ EndPod(p)
    /\ UNCHANGED <<date, filed, views, calls, overlap>>

CouncilNext ==
    \/ NewFiling
    \/ Midnight
    \/ \E p \in Pods :
        \/ StartRun(p)
        \/ BuildSnapshot(p)
        \/ SkipTicker(p)
        \/ CacheHit(p)
        \/ Ask(p)
        \/ Answer(p)
        \/ PersistView(p)
        \/ NextTicker(p)
        \/ Finish(p)
        \/ UniqueViolation(p)
        \/ RunDies(p)

CouncilSpec == CouncilInit /\ [][CouncilNext]_councilVars

-----------------------------------------------------------------------------
(***************************************************************************)
(* Properties.                                                             *)
(***************************************************************************)

\* "An unchanged snapshot_hash means the LLM is never re-paid for the same
\* reasoning": a key is paid for twice only if an answer to it died with a run
\* or two runs were open together, abstentions and repeated runs included.
NeverPaidTwice ==
    \A k \in ViewKey : calls[k] > 1 => (overlap \/ k \in wasted)

\* A run that ends has a stored view, opinion or abstention, of every persona on
\* every snapshot it built, whatever died before it and whatever it overlapped.
FinishedRunCovers ==
    [][\A p \in Pods :
        (at[p] = "snapshot" /\ tickersLeft[p] = {} /\ at'[p] = "idle" /\ losses' = losses) =>
            \A s \in built[p], a \in Persona : Stored([persona |-> a, snap |-> s])]_councilVars

\* "An advisor only re-reasons when a new filing changes its snapshot": while no run
\* dies and none overlaps another, a persona is asked once about a ticker's filings.
OnlyFilingsReask ==
    (losses = 0 /\ ~overlap) =>
        \A j, k \in ViewKey :
            /\ j.persona = k.persona
            /\ j.snap.ticker = k.snap.ticker /\ j.snap.filings = k.snap.filings
            /\ calls[j] > 0 /\ calls[k] > 0
            => j = k

=============================================================================
