------------------------------ MODULE Watchdogs ------------------------------
(***************************************************************************)
(* The jobs that watch the others: the token canary, the pipeline health   *)
(* check and the VIX alert of apps/worker/jobs/, dispatched by             *)
(* apps/worker/run_job.py from the CronJobs of infra/k8s/base.             *)
(*                                                                         *)
(* A CronJob makes one Job for each time of its schedule; its pod is tried *)
(* once more if it fails and killed after five minutes, so that a run      *)
(* never reaches the next half hour.  Nothing is remembered from one run   *)
(* to the next.                                                            *)
(*                                                                         *)
(* Time is counted in slots of the schedules; slot 0 is a midnight.  The   *)
(* instance chooses which slots of a day there are.                        *)
(***************************************************************************)
EXTENDS Integers

CONSTANTS
    FirstDay,       \* the weekday of slot 0; 0 is Monday
    SlotsPerDay,
    HourlySlots,    \* slots of a day at the full hour
    CheckSlots,     \* slots of a weekday in 9:00 .. 16:30
    OpenSlots,      \* slots of a weekday in 9:30 .. 16:00
    StaleAfter,     \* CONGRESSIONAL_STALE_AFTER, 48 hours
    TokenLife,      \* the seven days of a refresh token
    LastSlot,       \* bound on the time that passes
    MaxFailures     \* bound on pods that fail

ASSUME WatchAssumption ==
    /\ FirstDay \in 0 .. 6 /\ SlotsPerDay \in Nat \ {0}
    /\ HourlySlots \subseteq 0 .. SlotsPerDay - 1
    /\ CheckSlots \subseteq 0 .. SlotsPerDay - 1
    /\ OpenSlots \subseteq 0 .. SlotsPerDay - 1
    /\ StaleAfter \in Nat /\ TokenLife \in Nat /\ LastSlot \in Nat /\ MaxFailures \in Nat

VARIABLES
    slot,       \* the time
    due,        \* jobs of this slot that have not ended
    retried,    \* those of them whose pod has failed once
    newest,     \* max(disclosure_date): a midnight, or Never
    tokenEnds,  \* when the mounted token file stops being good
    warned,     \* warned[s]: when source s was last logged as stalled, or Never
    verdict,    \* what the canary has said in this slot
    heard,      \* what the owner's phone has shown in this slot
    failures,
    unchecked   \* history: the slots whose health check was lost

watchVars == <<slot, due, retried, newest, tokenEnds, warned, verdict, heard, failures,
               unchecked>>

-----------------------------------------------------------------------------

WatchJobs == {"token_canary", "pipeline_health", "vix_alert"}
Sources == {"disclosures", "quotes"}
Notices == {"buy window", "risk off", "sign in again"}
Never == -1

InDay(t) == t % SlotsPerDay
Weekday(t) == (FirstDay + t \div SlotsPerDay) % 7 < 5

WatchTypeOK ==
    /\ slot \in 0 .. LastSlot
    /\ due \subseteq WatchJobs /\ retried \subseteq due
    /\ newest \in Never .. slot
    /\ tokenEnds \in 0 .. LastSlot + TokenLife
    /\ warned \in [Sources -> Never .. slot]
    /\ verdict \in {"none", "healthy", "unhealthy"}
    /\ heard \subseteq Notices
    /\ failures \in 0 .. MaxFailures
    /\ unchecked \subseteq 0 .. slot

\* The Jobs the CronJobs make at a time.
Scheduled(t) ==
    (IF InDay(t) \in HourlySlots THEN {"pipeline_health"} ELSE {})
    \cup IF Weekday(t) /\ InDay(t) \in CheckSlots THEN {"token_canary", "vix_alert"} ELSE {}

WatchInit ==
    /\ slot = 0 /\ due = Scheduled(0) /\ retried = {}
    /\ newest \in {Never, 0}
    /\ tokenEnds \in {0, TokenLife}
    /\ warned = [s \in Sources |-> Never]
    /\ verdict = "none" /\ heard = {}
    /\ failures = 0 /\ unchecked = {}

-----------------------------------------------------------------------------
(***************************************************************************)
(* The world.                                                              *)
(***************************************************************************)

NextSlot ==
    /\ slot < LastSlot /\ due = {}
    /\ slot' = slot + 1
    /\ due' = Scheduled(slot + 1) /\ retried' = {}
    /\ verdict' = "none" /\ heard' = {}
    /\ UNCHANGED <<newest, tokenEnds, warned, failures, unchecked>>

\* Ingestion stores a filing disclosed today or the day before.
FilingStored ==
    /\ \E day \in {slot \div SlotsPerDay, slot \div SlotsPerDay - 1} :
        /\ day * SlotsPerDay > newest
        /\ newest' = day * SlotsPerDay
    /\ UNCHANGED <<slot, due, retried, tokenEnds, warned, verdict, heard, failures, unchecked>>

\* The owner signs in (SchwabLogin) before the slot's runs begin or after they end.
SignIn ==
    /\ due \in {{}, Scheduled(slot)} /\ verdict = "none"
    /\ tokenEnds # slot + TokenLife
    /\ tokenEnds' = slot + TokenLife
    /\ UNCHANGED <<slot, due, retried, newest, warned, verdict, heard, failures, unchecked>>

-----------------------------------------------------------------------------
(***************************************************************************)
(* The jobs.                                                               *)
(***************************************************************************)

\* The job ends, or its pod fails after all it did and is tried again.
Ends(j) ==
    \/ due' = due \ {j} /\ retried' = retried \ {j} /\ UNCHANGED failures
    \/ /\ j \notin retried /\ failures < MaxFailures
       /\ retried' = retried \cup {j} /\ failures' = failures + 1
       /\ UNCHANGED due

\* When the token that the canary's own adapter finds ends: it is made without a
\* token path, so it looks for ~/.tracker/schwab_token.json, which no pod has.
TokenFound == 0

\* run_token_canary with no expiry to look at and a LoggingNotifier.
TokenCanary ==
    /\ "token_canary" \in due
    /\ verdict' = IF slot < TokenFound THEN "healthy" ELSE "unhealthy"
    /\ Ends("token_canary")
    /\ UNCHANGED <<slot, newest, tokenEnds, warned, heard, unchecked>>

\* Faulty variant: an empty table is no stall.
DisclosuresStalledIfAny == newest # Never /\ slot - newest > StaleAfter

DisclosuresStalled == newest = Never \/ slot - newest > StaleAfter

\* quote_cache has no writer but the seed script: its newest row is none at all.
QuotesStalled == Weekday(slot) /\ InDay(slot) \in OpenSlots

\* run_pipeline_health: one entry of the log, which a LoggingNotifier writes.
PipelineHealth ==
    LET stalled == (IF DisclosuresStalled THEN {"disclosures"} ELSE {})
                   \cup IF QuotesStalled THEN {"quotes"} ELSE {}
    IN  /\ "pipeline_health" \in due
        /\ warned' = [s \in Sources |-> IF s \in stalled THEN slot ELSE warned[s]]
        /\ Ends("pipeline_health")
        /\ UNCHANGED <<slot, newest, tokenEnds, verdict, heard, unchecked>>

\* run_vix_check: beyond a threshold it is pushed, or lost with a warning; 0 is
\* that Massive does not tell.
VixAlert ==
    /\ "vix_alert" \in due
    /\ \E level \in {"calm", "between", "fear", "unknown"} :
        heard' \in {heard} \cup
            CASE level = "calm" -> {heard \cup {"buy window"}}
              [] level = "fear" -> {heard \cup {"risk off"}}
              [] OTHER          -> {}
    /\ Ends("vix_alert")
    /\ UNCHANGED <<slot, newest, tokenEnds, warned, verdict, unchecked>>

\* Massive answers with an error: the exception fails the pod, and then the Job.
VixCheckRaises ==
    /\ "vix_alert" \in due
    /\ IF "vix_alert" \in retried
       THEN due' = due \ {"vix_alert"} /\ retried' = retried \ {"vix_alert"}
       ELSE retried' = retried \cup {"vix_alert"} /\ UNCHANGED due
    /\ UNCHANGED <<slot, newest, tokenEnds, warned, verdict, heard, failures, unchecked>>

\* The Job is not started in time, or its pod dies twice, or the canary or the health
\* check swallows an exception: nothing comes of it.
RunLost(j) ==
    /\ j \in due /\ failures < MaxFailures
    /\ failures' = failures + 1
    /\ due' = due \ {j} /\ retried' = retried \ {j}
    /\ unchecked' = unchecked \cup
            IF j = "pipeline_health" /\ j \notin retried THEN {slot} ELSE {}
    /\ UNCHANGED <<slot, newest, tokenEnds, warned, verdict, heard>>

WatchNext ==
    \/ NextSlot
    \/ FilingStored
    \/ SignIn
    \/ TokenCanary
    \/ PipelineHealth
    \/ VixAlert
    \/ VixCheckRaises
    \/ \E j \in WatchJobs : RunLost(j)

WatchSpec == WatchInit /\ [][WatchNext]_watchVars

-----------------------------------------------------------------------------
(***************************************************************************)
(* Properties.                                                             *)
(***************************************************************************)

\* The first check past the limit; a table without a filing is past it.
StalledBy(since) == IF since = Never THEN 0 ELSE since + StaleAfter + 1

\* Health checks that have ended, and were not lost, in a stretch of time.
Checked(from, to) ==
    {t \in from .. to : InDay(t) \in HourlySlots /\ t \notin unchecked
                        /\ (t = slot => "pipeline_health" \notin due)}

\* A feed that has dried up does not stay unnoticed: whenever filings came and
\* whether under today's date or the day before's, once the newest is more than 48 hours old, or if there is
\* none at all, and a check has come through, the log says so, and says so again
\* at every later check.
StallIsNoticed ==
    \A t \in Checked(StalledBy(newest), slot) : warned["disclosures"] >= t

\* "The tracker-token-canary CronJob alerts you": by the end of a slot in which the
\* canary has run, the phone tells to sign in exactly if the token is good no more.
CanaryAlertsYou ==
    (verdict # "none" /\ due = {}) => ("sign in again" \in heard <=> tokenEnds <= slot)

=============================================================================
