---------------------------- MODULE DailyReports ----------------------------
(***************************************************************************)
(* The daily briefing and the daily digest, from the disclosures they read *)
(* to the phone they are pushed to: application/signals/                   *)
(* generate_briefing.py and generate_digest.py with their jobs in          *)
(* apps/worker/jobs/.  What the digest does to the recommendations is      *)
(* RecommendationLedger.                                                   *)
(*                                                                         *)
(* A job reads the disclosures of a rolling window, then the held tickers, *)
(* writes a text of its own, asks a model for a better one, commits the    *)
(* row with its event and only then pushes it.  Each statement sees what   *)
(* is committed by then: ingestion and refreshes go on.  A job runs again  *)
(* when its pod is retried or the owner runs it by hand.                   *)
(*                                                                         *)
(* Disclosures are numbered in the order they are stored.                  *)
(***************************************************************************)
EXTENDS Integers, Sequences, FiniteSets

CONSTANTS
    ReportKinds,    \* the reports: briefing, digest
    Window,         \* Window[k]: how many days of disclosures k covers (7, 45)
    QueryLimit,     \* LIMIT of the query (100)
    HeldTickers,    \* tickers the positions table may hold
    RangesFiled,    \* the amounts of an instance
    FirstFiled,     \* the earliest day of an instance's disclosures
    MaxDisclosures, \* bound on the disclosures stored, at most the 15 overlaps shown
    LastDate,       \* bound on the days that pass
    MaxJobs,        \* bound on the jobs started
    MaxDeaths       \* bound on the jobs that die

ASSUME ReportAssumption ==
    /\ Window \in [ReportKinds -> Nat \ {0}] /\ QueryLimit \in Nat \ {0}
    /\ FirstFiled \in Int /\ MaxDisclosures \in 0 .. 15
    /\ LastDate \in Nat /\ MaxJobs \in Nat /\ MaxDeaths \in Nat

VARIABLES
    date0,          \* today
    disclosed,      \* the trade_disclosures rows
    heldNow,        \* the tickers of the positions table
    reports,        \* the committed briefings and digests
    pushes,         \* what the push service was handed, in order
    jobs, deaths,
    jobAt, jobDay, jobId, known, gathered, text

\* Per kind: the step its job is at, its clock's day and its number, how many
\* disclosures there were when it began (history), those it has read, its text.
jobVars == <<jobAt, jobDay, jobId, known, gathered, text>>
tableVars == <<disclosed, heldNow>>
reportVars == <<date0, tableVars, reports, pushes, jobs, deaths, jobVars>>

-----------------------------------------------------------------------------

\* The amount of a disclosure: both bounds, "over" a lower one, or none.  One
\* without a ticker is like one of a ticker that is not held.
Ranges == {"bounded", "over", "undisclosed"}
ASSUME AmountAssumption == RangesFiled \subseteq Ranges
Disclosure == [day : Int, ticker : HeldTickers, amount : RangesFiled]

\* What a text is: the job's own, or a model's.  The briefing refuses one that says
\* there are no disclosures, the digest one that is cut short.
Texts == {"template", "denial", "short", "model"}

Report == [id : 1 .. MaxJobs, kind : ReportKinds, day : 0 .. LastDate, text : Texts,
           refs : SUBSET (1 .. MaxDisclosures), known : 0 .. MaxDisclosures]
JobSteps == {"idle", "begun", "gathered", "raised", "drafted", "composed", "committed"}

ReportTypeOK ==
    /\ date0 \in 0 .. LastDate
    /\ disclosed \in Seq(Disclosure) /\ Len(disclosed) <= MaxDisclosures
    /\ heldNow \subseteq HeldTickers
    /\ reports \in Seq(Report)
    /\ pushes \in Seq(1 .. MaxJobs)
    /\ jobs \in 0 .. MaxJobs /\ deaths \in 0 .. MaxDeaths
    /\ jobAt \in [ReportKinds -> JobSteps]
    /\ jobDay \in [ReportKinds -> 0 .. LastDate] /\ jobId \in [ReportKinds -> 0 .. MaxJobs]
    /\ known \in [ReportKinds -> 0 .. MaxDisclosures]
    /\ gathered \in [ReportKinds -> SUBSET DOMAIN disclosed]
    /\ text \in [ReportKinds -> Texts]

ReportInit ==
    /\ date0 = 0
    /\ disclosed = <<>> /\ heldNow = {}
    /\ reports = <<>> /\ pushes = <<>>
    /\ jobs = 0 /\ deaths = 0
    /\ jobAt = [k \in ReportKinds |-> "idle"]
    /\ jobDay = [k \in ReportKinds |-> 0] /\ jobId = [k \in ReportKinds |-> 0]
    /\ known = [k \in ReportKinds |-> 0]
    /\ gathered = [k \in ReportKinds |-> {}]
    /\ text = [k \in ReportKinds |-> "template"]

-----------------------------------------------------------------------------
(***************************************************************************)
(* The tables the jobs read.                                               *)
(***************************************************************************)

NextDate ==
    /\ date0 < LastDate
    /\ date0' = date0 + 1
    /\ UNCHANGED <<tableVars, reports, pushes, jobs, deaths, jobVars>>

\* A filing is stored on the day it is disclosed or later.
Store ==
    /\ Len(disclosed) < MaxDisclosures
    /\ \E d \in [day : FirstFiled .. date0, ticker : HeldTickers, amount : RangesFiled] :
        disclosed' = Append(disclosed, d)
    /\ UNCHANGED <<date0, heldNow, reports, pushes, jobs, deaths, jobVars>>

\* A refresh commits other positions.
Refresh ==
    /\ \E held \in SUBSET HeldTickers : held # heldNow /\ heldNow' = held
    /\ UNCHANGED <<date0, disclosed, reports, pushes, jobs, deaths, jobVars>>

-----------------------------------------------------------------------------
(***************************************************************************)
(* One job.                                                                *)
(***************************************************************************)

BeginReport(k) ==
    /\ jobAt[k] = "idle"
    /\ jobs < MaxJobs
    /\ jobs' = jobs + 1
    /\ jobId' = [jobId EXCEPT ![k] = jobs + 1]
    /\ jobDay' = [jobDay EXCEPT ![k] = date0]
    /\ known' = [known EXCEPT ![k] = Len(disclosed)]
    /\ jobAt' = [jobAt EXCEPT ![k] = "begun"]
    /\ UNCHANGED <<date0, tableVars, reports, pushes, deaths, gathered, text>>

\* Faulty variant: the window ends with the day's first moment.
InWindowUntilMidnight(k, i) == disclosed[i].day \in jobDay[k] - Window[k] .. jobDay[k] - 1

\* period_start <= disclosure_date < period_end, the midnight after today.
InWindow(k, i) == disclosed[i].day \in jobDay[k] - Window[k] + 1 .. jobDay[k]

\* _fetch_disclosures: the newest ones, ties broken as the database likes.
Gather(k) ==
    LET window == {i \in DOMAIN disclosed : InWindow(k, i)} IN
    /\ jobAt[k] = "begun"
    /\ \E S \in SUBSET window :
        /\ \A i \in S, j \in window \ S : disclosed[j].day <= disclosed[i].day
        /\ Cardinality(S) <= QueryLimit
        /\ Cardinality(S) < QueryLimit => S = window
        /\ gathered' = [gathered EXCEPT ![k] = S]
    /\ jobAt' = [jobAt EXCEPT ![k] = "gathered"]
    /\ UNCHANGED <<date0, tableVars, reports, pushes, jobs, deaths, jobDay, jobId, known, text>>

\* The disclosures read that touch a ticker held by now.
Overlaps(k) == {i \in gathered[k] : disclosed[i].ticker \in heldNow}

\* The briefing's template prints both bounds of an overlap that has a lower one.
Unprintable(k) == k = "briefing" /\ \E i \in Overlaps(k) : disclosed[i].amount = "over"

\* _fetch_held_tickers, the market regime, and the job's own text.
ReadHeld(k) ==
    /\ jobAt[k] = "gathered"
    /\ jobAt' = [jobAt EXCEPT ![k] = IF Unprintable(k) THEN "raised" ELSE "drafted"]
    /\ UNCHANGED <<date0, tableVars, reports, pushes, jobs, deaths, jobDay, jobId, known,
                   gathered, text>>

\* _generate_llm_summary.  No key, an unknown provider or a call that fails leaves
\* the template's text; so does a prompt that has an amount to print without both
\* bounds.
BriefingAnswers(k) ==
    {"template"} \cup IF \A i \in gathered[k] : disclosed[i].amount = "bounded"
                      THEN {"denial", "model"} ELSE {}

\* The briefing's text: a denial of the disclosures that were read is refused.  The
\* code takes a text for a denial that has "no" and "disclos" among its first 200
\* characters; that this tells the denials exactly is an idealisation.
BriefingText(k, answer) ==
    IF answer = "denial" /\ gathered[k] # {} THEN "template" ELSE answer

\* _call_openrouter, or no key, or its failure.
DigestAnswers == {"template", "short", "model"}

\* The digest's text: one of two hundred characters or less is refused.
DigestText(answer) == IF answer = "short" THEN "template" ELSE answer

Compose(k) ==
    /\ jobAt[k] = "drafted"
    /\ \/ /\ k = "briefing"
          /\ \E a \in BriefingAnswers(k) : text' = [text EXCEPT ![k] = BriefingText(k, a)]
       \/ /\ k = "digest"
          /\ \E a \in DigestAnswers : text' = [text EXCEPT ![k] = DigestText(a)]
    /\ jobAt' = [jobAt EXCEPT ![k] = "composed"]
    /\ UNCHANGED <<date0, tableVars, reports, pushes, jobs, deaths, jobDay, jobId, known,
                   gathered>>

Row(k) == [id |-> jobId[k], kind |-> k, day |-> jobDay[k], text |-> text[k],
           refs |-> gathered[k], known |-> known[k]]

CommitReport(k) ==
    /\ jobAt[k] = "composed"
    /\ reports' = Append(reports, Row(k))
    /\ jobAt' = [jobAt EXCEPT ![k] = "committed"]
    /\ UNCHANGED <<date0, tableVars, pushes, jobs, deaths, jobDay, jobId, known, gathered,
                   text>>

EndJob0(k) ==
    /\ jobAt' = [jobAt EXCEPT ![k] = "idle"]
    /\ jobDay' = [jobDay EXCEPT ![k] = 0] /\ jobId' = [jobId EXCEPT ![k] = 0]
    /\ known' = [known EXCEPT ![k] = 0]
    /\ gathered' = [gathered EXCEPT ![k] = {}]
    /\ text' = [text EXCEPT ![k] = "template"]

\* Faulty variant: the push goes out while the transaction is open.
PushReportEarly(k) ==
    /\ jobAt[k] \in {"composed", "committed"}
    /\ jobId[k] \notin {pushes[n] : n \in DOMAIN pushes}
    /\ pushes' = Append(pushes, jobId[k])
    /\ UNCHANGED <<date0, tableVars, reports, jobs, deaths, jobVars>>

\* The job's last act: pushed, or not configured, or lost with a warning.
PushReport(k) ==
    /\ jobAt[k] = "committed"
    /\ pushes' \in {pushes, Append(pushes, jobId[k])}
    /\ EndJob0(k)
    /\ UNCHANGED <<date0, tableVars, reports, jobs, deaths>>

\* The TypeError leaves the job.
TemplateRaised(k) ==
    /\ jobAt[k] = "raised"
    /\ EndJob0(k)
    /\ UNCHANGED <<date0, tableVars, reports, pushes, jobs, deaths>>

\* The deadline, the node or the database; a commit may have gone through
\* unacknowledged, a push without the job's end.
JobDies(k) ==
    /\ jobAt[k] # "idle"
    /\ deaths < MaxDeaths
    /\ deaths' = deaths + 1
    /\ reports' \in {reports} \cup IF jobAt[k] = "composed" THEN {Append(reports, Row(k))} ELSE {}
    /\ pushes' \in {pushes}
                   \cup IF jobAt[k] = "committed" THEN {Append(pushes, jobId[k])} ELSE {}
    /\ EndJob0(k)
    /\ UNCHANGED <<date0, tableVars, jobs>>

ReportNext ==
    \/ NextDate
    \/ Store
    \/ Refresh
    \/ \E k \in ReportKinds :
        \/ BeginReport(k)
        \/ Gather(k)
        \/ ReadHeld(k)
        \/ Compose(k)
        \/ CommitReport(k)
        \/ PushReport(k)
        \/ TemplateRaised(k)
        \/ JobDies(k)

ReportSpec == ReportInit /\ [][ReportNext]_reportVars

-----------------------------------------------------------------------------
(***************************************************************************)
(* Properties.                                                             *)
(***************************************************************************)

\* A disclosure that is stored, however late, before its days are over is in
\* every report that begins while they last, unless as many others as the query
\* returns are at least as new; and a briefing that has any never denies it.
StoredInTimeIsReported ==
    \A n \in DOMAIN reports :
        LET r == reports[n] IN
        /\ \A i \in 1 .. r.known \ r.refs :
            disclosed[i].day \in r.day - Window[r.kind] + 1 .. r.day =>
                /\ Cardinality(r.refs) = QueryLimit
                /\ \A j \in r.refs : disclosed[j].day >= disclosed[i].day
        /\ r.kind = "briefing" /\ r.refs # {} => r.text # "denial"

\* The phone shows a report once, and only one that the dashboard has: the job
\* dying between the two steps never leaves a push without a row.
PushedIsCommitted ==
    /\ \A n \in DOMAIN pushes : \E m \in DOMAIN reports : reports[m].id = pushes[n]
    /\ \A n, m \in DOMAIN pushes : pushes[n] = pushes[m] => n = m

\* "Structured markdown summary without LLM.  Always works."
TemplateAlwaysWorks == \A k \in ReportKinds : jobAt[k] # "raised"

=============================================================================
