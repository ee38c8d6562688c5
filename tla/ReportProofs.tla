---------------------------- MODULE ReportProofs ----------------------------
(***************************************************************************)
(* Theorems about the jobs that report what others have stored:            *)
(* DailyReports, for any reports, windows, query limit, held tickers, and  *)
(* any number of disclosures, jobs and deaths, and Watchdogs, for any      *)
(* schedule, limit and number of failures.                                 *)
(***************************************************************************)
EXTENDS DailyReports, Watchdogs, FiniteSetTheorems, TLAPS

USE ReportAssumption

\* The reports a number is on.
Committed(id) == \E m \in DOMAIN reports : reports[m].id = id
Pushed(id) == \E n \in DOMAIN pushes : pushes[n] = id

\* A job's number is its own, on the dashboard once committed and not before,
\* and not on the phone while the job lasts.
Numbered ==
    /\ \A m \in DOMAIN reports : reports[m].id <= jobs
    /\ \A k \in ReportKinds : jobAt[k] # "idle" =>
        /\ jobId[k] \in 1 .. jobs
        /\ ~Pushed(jobId[k])
        /\ Committed(jobId[k]) <=> jobAt[k] = "committed"
    /\ \A k, l \in ReportKinds :
        jobAt[k] # "idle" /\ jobAt[l] # "idle" /\ jobId[k] = jobId[l] => k = l

\* refs has all of the first kn disclosures in the window of a report of that day,
\* but for what is beyond the query's limit.
Complete(refs, kind, day, kn) ==
    \A i \in 1 .. kn \ refs : disclosed[i].day \in day - Window[kind] + 1 .. day =>
        /\ Cardinality(refs) = QueryLimit
        /\ \A j \in refs : disclosed[j].day >= disclosed[i].day

\* What a job has read is complete, and its text does not deny it.
ReadCompletely ==
    \A k \in ReportKinds :
        /\ known[k] <= Len(disclosed)
        /\ jobAt[k] \in {"gathered", "drafted", "composed"} =>
            Complete(gathered[k], k, jobDay[k], known[k])
        /\ jobAt[k] = "composed" /\ k = "briefing" /\ gathered[k] # {} => text[k] # "denial"

\* What is committed is, too.
StoredCompletely ==
    \A n \in DOMAIN reports : LET r == reports[n] IN
        /\ r.known <= Len(disclosed) /\ r.refs \subseteq DOMAIN disclosed
        /\ Complete(r.refs, r.kind, r.day, r.known)
        /\ r.kind = "briefing" /\ r.refs # {} => r.text # "denial"

\* The inductive invariant.
ReportIInv == ReportTypeOK /\ Numbered /\ PushedIsCommitted /\ ReadCompletely /\ StoredCompletely

-----------------------------------------------------------------------------

\* What stays in a sequence when one element is appended.
LEMMA AppendFacts ==
    ASSUME NEW S, NEW s \in Seq(S), NEW e \in S
    PROVE  /\ Append(s, e) \in Seq(S)
           /\ Len(Append(s, e)) = Len(s) + 1
           /\ DOMAIN s = 1 .. Len(s) /\ DOMAIN Append(s, e) = 1 .. Len(s) + 1
           /\ \A i \in DOMAIN s : Append(s, e)[i] = s[i]
           /\ Append(s, e)[Len(s) + 1] = e
           /\ Len(s) \in Nat
OBVIOUS

LEMMA ReportInitIInv == ReportInit => ReportIInv
<1> SUFFICES ASSUME ReportInit PROVE ReportIInv
  OBVIOUS
<1> USE DEF ReportInit
<1>1. ReportTypeOK
  <2>1. disclosed \in Seq(Disclosure) /\ reports \in Seq(Report) /\ pushes \in Seq(1 .. MaxJobs)
        /\ Len(disclosed) = 0
    OBVIOUS
  <2>2. QED
    BY <2>1 DEF ReportTypeOK, JobSteps, Texts
<1>2. Numbered /\ PushedIsCommitted
  BY DEF Numbered, PushedIsCommitted
<1>3. ReadCompletely /\ StoredCompletely
  BY DEF ReadCompletely, StoredCompletely
<1>4. QED
  BY <1>1, <1>2, <1>3 DEF ReportIInv

\* The tables change under the jobs: what was complete stays so.
LEMMA TableStep == ReportIInv /\ (NextDate \/ Store \/ Refresh) => ReportIInv'
<1> SUFFICES ASSUME ReportIInv, NextDate \/ Store \/ Refresh PROVE ReportIInv'
  OBVIOUS
<1> USE DEF ReportIInv
<1>1. UNCHANGED <<reports, pushes, jobs, deaths, jobVars>>
  BY DEF NextDate, Store, Refresh
<1>2. /\ disclosed' \in Seq(Disclosure) /\ Len(disclosed') <= MaxDisclosures
      /\ Len(disclosed) <= Len(disclosed') /\ DOMAIN disclosed \subseteq DOMAIN disclosed'
      /\ \A i \in DOMAIN disclosed : disclosed'[i] = disclosed[i]
      /\ DOMAIN disclosed = 1 .. Len(disclosed) /\ Len(disclosed) \in Nat
      /\ Len(disclosed') \in Nat
  <2>1. CASE disclosed' = disclosed
    BY <2>1 DEF ReportTypeOK
  <2>2. CASE Store
    <3>1. PICK d \in [day : FirstFiled .. date0, ticker : HeldTickers, amount : RangesFiled] :
              disclosed' = Append(disclosed, d)
      BY <2>2 DEF Store
    <3>2. d \in Disclosure
      BY <3>1 DEF Disclosure, ReportTypeOK
    <3>3. disclosed \in Seq(Disclosure) /\ Len(disclosed) < MaxDisclosures
      BY <2>2 DEF Store, ReportTypeOK
    <3>4. /\ disclosed' \in Seq(Disclosure) /\ Len(disclosed') = Len(disclosed) + 1
          /\ DOMAIN disclosed = 1 .. Len(disclosed) /\ DOMAIN disclosed' = 1 .. Len(disclosed) + 1
          /\ \A i \in DOMAIN disclosed : disclosed'[i] = disclosed[i]
          /\ Len(disclosed) \in Nat
      BY <3>1, <3>2, <3>3, AppendFacts
    <3>5. QED
      BY <3>3, <3>4
  <2>3. QED
    BY <2>1, <2>2 DEF NextDate, Refresh, tableVars
<1>3. date0' \in 0 .. LastDate /\ heldNow' \subseteq HeldTickers
  BY DEF NextDate, Store, Refresh, tableVars, ReportTypeOK
<1>4. ReportTypeOK'
  BY <1>1, <1>2, <1>3 DEF ReportTypeOK, jobVars
<1>5. Numbered' /\ PushedIsCommitted'
  BY <1>1 DEF Numbered, PushedIsCommitted, Committed, Pushed, jobVars
<1>6. ASSUME NEW refs \in SUBSET DOMAIN disclosed, NEW kind, NEW day, NEW kn \in Nat,
             kn <= Len(disclosed), Complete(refs, kind, day, kn)
      PROVE  Complete(refs, kind, day, kn)'
  BY <1>2, <1>6 DEF Complete
<1>7. ReadCompletely'
  BY <1>1, <1>2, <1>6 DEF ReadCompletely, ReportTypeOK, jobVars
<1>8. StoredCompletely'
  <2> SUFFICES ASSUME NEW n \in DOMAIN reports PROVE StoredCompletely!(n)'
    BY <1>1 DEF StoredCompletely
  <2>1. reports[n] \in Report /\ reports' = reports
    BY <1>1 DEF ReportTypeOK
  <2>2. reports[n].known \in Nat
    BY <2>1 DEF Report
  <2>3. QED
    BY <1>2, <1>6, <2>1, <2>2 DEF StoredCompletely
<1>9. QED
  BY <1>4, <1>5, <1>7, <1>8

\* A job's start takes the next number.
LEMMA BeginReportStep ==
    ASSUME ReportIInv, NEW k \in ReportKinds, BeginReport(k) PROVE ReportIInv'
<1> USE DEF ReportIInv
<1>1. UNCHANGED <<date0, tableVars, reports, pushes, deaths, gathered, text>>
      /\ jobAt[k] = "idle" /\ jobs < MaxJobs /\ jobs' = jobs + 1
      /\ jobId' = [jobId EXCEPT ![k] = jobs + 1] /\ jobDay' = [jobDay EXCEPT ![k] = date0]
      /\ known' = [known EXCEPT ![k] = Len(disclosed)] /\ jobAt' = [jobAt EXCEPT ![k] = "begun"]
  BY DEF BeginReport
<1>2. Len(disclosed) \in 0 .. MaxDisclosures /\ jobs + 1 \in 0 .. MaxJobs /\ jobs \in Nat
  BY <1>1 DEF ReportTypeOK
<1>3. ReportTypeOK'
  BY <1>1, <1>2 DEF ReportTypeOK, tableVars, JobSteps
<1>4. \A m \in DOMAIN reports : reports[m].id <= jobs /\ reports[m].id \in Nat
  <2> TAKE m \in DOMAIN reports
  <2>1. reports[m] \in Report
    BY DEF ReportTypeOK
  <2>2. QED
    BY <2>1 DEF Report, Numbered
<1>5. ~Committed(jobs + 1) /\ ~Pushed(jobs + 1)
  BY <1>2, <1>4 DEF Committed, Pushed, PushedIsCommitted
<1>6. Numbered'
  <2>1. \A m \in DOMAIN reports' : reports'[m].id <= jobs'
    BY <1>1, <1>2, <1>4
  <2>2. \A l \in ReportKinds \ {k} : jobAt'[l] = jobAt[l] /\ jobId'[l] = jobId[l]
    BY <1>1 DEF ReportTypeOK
  <2>3. jobAt'[k] = "begun" /\ jobId'[k] = jobs + 1
    BY <1>1 DEF ReportTypeOK
  <2>4. \A id : (Committed(id)' <=> Committed(id)) /\ (Pushed(id)' <=> Pushed(id))
    BY <1>1 DEF Committed, Pushed
  <2>5. ASSUME NEW l \in ReportKinds, jobAt'[l] # "idle"
        PROVE  jobId'[l] \in 1 .. jobs' /\ ~Pushed(jobId[l])'
               /\ (Committed(jobId[l])' <=> jobAt'[l] = "committed")
    <3>1. CASE l = k
      BY <1>2, <1>5, <1>1, <2>3, <2>4, <3>1
    <3>2. CASE l # k
      <4>1. jobId[l] \in 1 .. jobs /\ ~Pushed(jobId[l]) /\ (Committed(jobId[l]) <=> jobAt[l] = "committed")
        BY <2>2, <2>5, <3>2 DEF Numbered
      <4>2. QED
        BY <1>1, <1>2, <2>2, <2>4, <3>2, <4>1
    <3>3. QED
      BY <3>1, <3>2
  <2>6. \A l, m \in ReportKinds :
            jobAt'[l] # "idle" /\ jobAt'[m] # "idle" /\ jobId'[l] = jobId'[m] => l = m
    BY <1>2, <2>2, <2>3 DEF Numbered
  <2>7. QED
    BY <2>1, <2>4, <2>5, <2>6 DEF Numbered
<1>7. PushedIsCommitted'
  BY <1>1 DEF PushedIsCommitted
<1>8. ReadCompletely'
  BY <1>1, <1>2 DEF ReadCompletely, ReportTypeOK, Complete, tableVars
<1>9. StoredCompletely'
  BY <1>1 DEF StoredCompletely, Complete, tableVars
<1>10. QED
  BY <1>3, <1>6, <1>7, <1>8, <1>9

\* The steps that read: only the job's own variables move, and its number stays.
LEMMA ReadStep ==
    ASSUME ReportIInv, NEW k \in ReportKinds, Gather(k) \/ ReadHeld(k) \/ Compose(k)
    PROVE  ReportIInv'
<1> USE DEF ReportIInv
<1>1. UNCHANGED <<date0, tableVars, reports, pushes, jobs, deaths, jobDay, jobId, known>>
  BY DEF Gather, ReadHeld, Compose
<1>2. \A l \in ReportKinds : (jobAt'[l] # "idle" <=> jobAt[l] # "idle")
                            /\ (jobAt'[l] = "committed" <=> jobAt[l] = "committed")
  BY DEF Gather, ReadHeld, Compose, ReportTypeOK
<1>3. Numbered' /\ PushedIsCommitted'
  BY <1>1, <1>2 DEF Numbered, PushedIsCommitted, Committed, Pushed
<1>4. StoredCompletely'
  BY <1>1 DEF StoredCompletely, Complete, tableVars
<1>5. CASE Gather(k)
  <2> DEFINE W == {i \in DOMAIN disclosed : InWindow(k, i)}
  <2>1. PICK S \in SUBSET W :
          /\ \A i \in S, j \in W \ S : disclosed[j].day <= disclosed[i].day
          /\ Cardinality(S) <= QueryLimit
          /\ Cardinality(S) < QueryLimit => S = W
          /\ gathered' = [gathered EXCEPT ![k] = S]
    BY <1>5 DEF Gather
  <2>2. jobAt' = [jobAt EXCEPT ![k] = "gathered"] /\ text' = text
    BY <1>5 DEF Gather
  <2>3. DOMAIN disclosed = 1 .. Len(disclosed) /\ Len(disclosed) \in Nat
    BY DEF ReportTypeOK
  <2>4. Cardinality(S) \in Nat
    <3>1. IsFiniteSet(1 .. Len(disclosed)) /\ S \subseteq 1 .. Len(disclosed)
      BY <2>3, FS_Interval
    <3>2. QED
      BY <3>1, FS_Subset, FS_CardinalityType
  <2>5. ReportTypeOK'
    BY <1>1, <2>2, <2>1 DEF ReportTypeOK, tableVars, JobSteps
  <2>6. Complete(S, k, jobDay[k], known[k])
    <3> SUFFICES ASSUME NEW i \in 1 .. known[k] \ S,
                        disclosed[i].day \in jobDay[k] - Window[k] + 1 .. jobDay[k]
                 PROVE  /\ Cardinality(S) = QueryLimit
                        /\ \A j \in S : disclosed[j].day >= disclosed[i].day
      BY DEF Complete
    <3>1. i \in W
      BY <2>3 DEF ReadCompletely, InWindow, ReportTypeOK
    <3>2. Cardinality(S) = QueryLimit
      BY <2>1, <2>4, <3>1
    <3>3. ASSUME NEW j \in S PROVE disclosed[j].day >= disclosed[i].day
      <4>1. disclosed[i] \in Disclosure /\ disclosed[j] \in Disclosure
        BY <3>1 DEF ReportTypeOK
      <4>2. disclosed[i].day <= disclosed[j].day
        BY <2>1, <3>1
      <4>3. QED
        BY <4>1, <4>2 DEF Disclosure
    <3>4. QED
      BY <3>2, <3>3
  <2> HIDE DEF W
  <2>7. ReadCompletely'
    <3>1. \A l \in ReportKinds \ {k} : jobAt'[l] = jobAt[l] /\ gathered'[l] = gathered[l]
      BY <2>1, <2>2 DEF ReportTypeOK
    <3>2. gathered'[k] = S /\ jobAt'[k] = "gathered"
      BY <2>1, <2>2 DEF ReportTypeOK
    <3>3. disclosed' = disclosed
      BY <1>1 DEF tableVars
    <3>4. QED
      BY <1>1, <2>2, <2>6, <3>1, <3>2, <3>3 DEF ReadCompletely, Complete
  <2>8. QED
    BY <1>3, <1>4, <2>5, <2>7
<1>6. CASE ReadHeld(k)
  <2>1. UNCHANGED <<gathered, text>> /\ jobAt[k] = "gathered"
        /\ jobAt' = [jobAt EXCEPT ![k] = IF Unprintable(k) THEN "raised" ELSE "drafted"]
    BY <1>6 DEF ReadHeld
  <2>2. ReportTypeOK'
    BY <1>1, <2>1 DEF ReportTypeOK, tableVars, JobSteps
  <2>3. ReadCompletely'
    BY <1>1, <2>1 DEF ReadCompletely, Complete, ReportTypeOK, tableVars
  <2>4. QED
    BY <1>3, <1>4, <2>2, <2>3
<1>7. CASE Compose(k)
  <2>1. gathered' = gathered /\ jobAt[k] = "drafted" /\ jobAt' = [jobAt EXCEPT ![k] = "composed"]
    BY <1>7 DEF Compose
  <2>2. PICK t \in Texts : text' = [text EXCEPT ![k] = t]
                          /\ (k = "briefing" /\ gathered[k] # {} => t # "denial")
    <3>1. CASE k = "briefing" /\ \E a \in BriefingAnswers(k) : text' = [text EXCEPT ![k] = BriefingText(k, a)]
      BY <3>1 DEF BriefingAnswers, BriefingText, Texts
    <3>2. CASE k = "digest" /\ \E a \in DigestAnswers : text' = [text EXCEPT ![k] = DigestText(a)]
      BY <3>2 DEF DigestAnswers, DigestText, Texts
    <3>3. QED
      BY <1>7, <3>1, <3>2 DEF Compose
  <2>3. ReportTypeOK'
    BY <1>1, <2>1, <2>2 DEF ReportTypeOK, tableVars, JobSteps
  <2>4. ReadCompletely'
    BY <1>1, <2>1, <2>2 DEF ReadCompletely, Complete, ReportTypeOK, tableVars
  <2>5. QED
    BY <1>3, <1>4, <2>3, <2>4
<1>8. QED
  BY <1>5, <1>6, <1>7

\* The row a job commits is a report, and complete.
LEMMA RowCommitted ==
    ASSUME ReportIInv, NEW k \in ReportKinds, jobAt[k] = "composed",
           reports' = Append(reports, Row(k)), UNCHANGED tableVars
    PROVE  /\ reports' \in Seq(Report)
           /\ StoredCompletely'
           /\ \A id : Committed(id)' <=> Committed(id) \/ id = jobId[k]
           /\ \A m \in DOMAIN reports' : reports'[m].id <= jobs
<1> USE DEF ReportIInv
<1> DEFINE r == Row(k)
<1>1. r \in Report /\ r.id = jobId[k] /\ jobId[k] <= jobs
  <2>1. jobId[k] \in 1 .. jobs /\ jobs <= MaxJobs /\ jobs \in Nat
    BY DEF Numbered, ReportTypeOK
  <2>2. gathered[k] \subseteq 1 .. Len(disclosed) /\ Len(disclosed) <= MaxDisclosures
        /\ Len(disclosed) \in Nat
    BY DEF ReportTypeOK
  <2>3. gathered[k] \subseteq 1 .. MaxDisclosures
    BY <2>2
  <2>4. QED
    BY <2>1, <2>3 DEF Row, Report, ReportTypeOK
<1>2. /\ r.known <= Len(disclosed) /\ r.refs \subseteq DOMAIN disclosed
      /\ Complete(r.refs, r.kind, r.day, r.known)
      /\ r.kind = "briefing" /\ r.refs # {} => r.text # "denial"
  BY DEF ReadCompletely, ReportTypeOK, Row
<1> HIDE DEF r
<1>3. /\ reports' \in Seq(Report) /\ Len(reports) \in Nat
      /\ DOMAIN reports = 1 .. Len(reports) /\ DOMAIN reports' = 1 .. Len(reports) + 1
      /\ \A n \in DOMAIN reports : reports'[n] = reports[n]
      /\ reports'[Len(reports) + 1] = r
  <2>1. reports \in Seq(Report) /\ reports' = Append(reports, r)
    BY DEF ReportTypeOK, r
  <2>2. QED
    BY <1>1, <2>1, AppendFacts
<1>4. disclosed' = disclosed
  BY DEF tableVars
<1>5. ASSUME NEW n \in DOMAIN reports' PROVE StoredCompletely!(n)'
  <2>1. CASE n \in DOMAIN reports
    BY <1>3, <1>4, <2>1 DEF StoredCompletely, Complete
  <2>2. CASE n = Len(reports) + 1
    BY <1>2, <1>3, <1>4, <2>2 DEF Complete
  <2>3. QED
    BY <1>3, <2>1, <2>2
<1>6. StoredCompletely'
  BY <1>5 DEF StoredCompletely
<1>7. ASSUME NEW id PROVE Committed(id)' <=> Committed(id) \/ id = jobId[k]
  BY <1>1, <1>3 DEF Committed
<1>8. \A m \in DOMAIN reports' : reports'[m].id <= jobs
  BY <1>1, <1>3 DEF Numbered
<1>9. QED
  BY <1>3, <1>6, <1>7, <1>8

LEMMA CommitReportStep ==
    ASSUME ReportIInv, NEW k \in ReportKinds, CommitReport(k) PROVE ReportIInv'
<1> USE DEF ReportIInv
<1>1. UNCHANGED <<date0, tableVars, pushes, jobs, deaths, jobDay, jobId, known, gathered, text>>
      /\ jobAt[k] = "composed" /\ jobAt' = [jobAt EXCEPT ![k] = "committed"]
      /\ reports' = Append(reports, Row(k))
  BY DEF CommitReport
<1>2. /\ reports' \in Seq(Report) /\ StoredCompletely'
      /\ \A id : Committed(id)' <=> Committed(id) \/ id = jobId[k]
      /\ \A m \in DOMAIN reports' : reports'[m].id <= jobs
  BY <1>1, RowCommitted
<1>3. ReportTypeOK'
  BY <1>1, <1>2 DEF ReportTypeOK, tableVars, JobSteps
<1>4. PushedIsCommitted'
  <2>1. \A id : Committed(id) => Committed(id)'
    BY <1>2
  <2>2. QED
    BY <1>1, <2>1 DEF PushedIsCommitted, Committed
<1>5. \A l \in ReportKinds \ {k} : jobAt'[l] = jobAt[l]
  BY <1>1 DEF ReportTypeOK
<1>6. jobAt'[k] = "committed"
  BY <1>1 DEF ReportTypeOK
<1>7. Numbered'
  <2>1. ASSUME NEW l \in ReportKinds, jobAt'[l] # "idle"
        PROVE  /\ jobId[l] \in 1 .. jobs /\ ~Pushed(jobId[l])'
               /\ Committed(jobId[l])' <=> jobAt'[l] = "committed"
    BY <1>1, <1>2, <1>5, <1>6, <2>1 DEF Numbered, Pushed
  <2>2. QED
    BY <1>1, <1>2, <1>5, <1>6, <2>1 DEF Numbered
<1>8. ReadCompletely'
  BY <1>1, <1>5, <1>6 DEF ReadCompletely, Complete, tableVars
<1>9. QED
  BY <1>2, <1>3, <1>4, <1>7, <1>8

\* The job ends, by itself or not: its number is not used again.
LEMMA EndJobStep ==
    ASSUME ReportIInv, NEW k \in ReportKinds, PushReport(k) \/ TemplateRaised(k) \/ JobDies(k)
    PROVE  ReportIInv'
<1> USE DEF ReportIInv
<1>1. UNCHANGED <<date0, tableVars, jobs>> /\ EndJob0(k) /\ jobAt[k] # "idle"
      /\ deaths' \in 0 .. MaxDeaths
  BY DEF PushReport, TemplateRaised, JobDies, ReportTypeOK
<1>2. reports' = reports \/ (jobAt[k] = "composed" /\ reports' = Append(reports, Row(k)))
  BY DEF PushReport, TemplateRaised, JobDies
<1>3. pushes' = pushes \/ (jobAt[k] = "committed" /\ pushes' = Append(pushes, jobId[k]))
  BY DEF PushReport, TemplateRaised, JobDies
<1>4. /\ reports' \in Seq(Report) /\ StoredCompletely'
      /\ \A id : Committed(id) => Committed(id)'
      /\ \A id : Committed(id)' => Committed(id) \/ id = jobId[k]
      /\ \A m \in DOMAIN reports' : reports'[m].id <= jobs
  <2>1. CASE reports' = reports
    BY <1>1, <2>1 DEF StoredCompletely, Complete, Committed, Numbered, ReportTypeOK, tableVars
  <2>2. CASE jobAt[k] = "composed" /\ reports' = Append(reports, Row(k))
    BY <1>1, <2>2, RowCommitted
  <2>3. QED
    BY <1>2, <2>1, <2>2
<1>5. jobId[k] \in 1 .. jobs /\ jobs \in 0 .. MaxJobs /\ ~Pushed(jobId[k])
      /\ (Committed(jobId[k]) <=> jobAt[k] = "committed")
  BY <1>1 DEF Numbered, ReportTypeOK
<1>6. /\ pushes' \in Seq(1 .. MaxJobs) /\ PushedIsCommitted'
      /\ \A id : Pushed(id)' => Pushed(id) \/ id = jobId[k]
  <2>1. CASE pushes' = pushes
    BY <1>4, <2>1 DEF PushedIsCommitted, Committed, Pushed, ReportTypeOK
  <2>2. CASE jobAt[k] = "committed" /\ pushes' = Append(pushes, jobId[k])
    <3>1. /\ pushes' \in Seq(1 .. MaxJobs) /\ Len(pushes) \in Nat
          /\ DOMAIN pushes = 1 .. Len(pushes) /\ DOMAIN pushes' = 1 .. Len(pushes) + 1
          /\ \A n \in DOMAIN pushes : pushes'[n] = pushes[n]
          /\ pushes'[Len(pushes) + 1] = jobId[k]
      <4>1. pushes \in Seq(1 .. MaxJobs) /\ jobId[k] \in 1 .. MaxJobs
        BY <1>5 DEF ReportTypeOK
      <4>2. QED
        BY <2>2, <4>1, AppendFacts
    <3>2. ASSUME NEW n \in DOMAIN pushes'
          PROVE  \E m \in DOMAIN reports' : reports'[m].id = pushes'[n]
      <4>1. \A i \in DOMAIN pushes : Committed(pushes[i])
        BY DEF PushedIsCommitted, Committed
      <4>2. Committed(pushes'[n])
        BY <1>5, <2>2, <3>1, <4>1
      <4>3. QED
        BY <1>2, <2>2, <4>2 DEF Committed
    <3>3. \A n, m \in DOMAIN pushes' : pushes'[n] = pushes'[m] => n = m
      BY <1>5, <3>1 DEF PushedIsCommitted, Pushed
    <3>4. PushedIsCommitted'
      BY <3>2, <3>3 DEF PushedIsCommitted
    <3>5. ASSUME NEW id, Pushed(id)' PROVE Pushed(id) \/ id = jobId[k]
      BY <3>1, <3>5 DEF Pushed
    <3>6. QED
      BY <3>1, <3>4, <3>5
  <2>3. QED
    BY <1>3, <2>1, <2>2
<1>7. ReportTypeOK'
  <2>1. /\ jobAt' \in [ReportKinds -> JobSteps] /\ jobDay' \in [ReportKinds -> 0 .. LastDate]
        /\ jobId' \in [ReportKinds -> 0 .. MaxJobs]
    BY <1>1 DEF ReportTypeOK, EndJob0, JobSteps
  <2>2. /\ known' \in [ReportKinds -> 0 .. MaxDisclosures]
        /\ text' \in [ReportKinds -> Texts]
    BY <1>1 DEF ReportTypeOK, EndJob0, Texts
  <2>3. gathered' \in [ReportKinds -> SUBSET DOMAIN disclosed]
    BY <1>1 DEF ReportTypeOK, EndJob0
  <2>4. QED
    BY <1>1, <1>4, <1>6, <2>1, <2>2, <2>3 DEF ReportTypeOK, tableVars
<1>8. /\ jobAt'[k] = "idle" /\ known'[k] = 0
      /\ \A l \in ReportKinds \ {k} : jobAt'[l] = jobAt[l] /\ jobId'[l] = jobId[l]
              /\ known'[l] = known[l] /\ gathered'[l] = gathered[l] /\ text'[l] = text[l]
              /\ jobDay'[l] = jobDay[l]
  BY <1>1 DEF EndJob0, ReportTypeOK
<1>9. Numbered'
  <2>1. ASSUME NEW l \in ReportKinds, jobAt'[l] # "idle"
        PROVE  /\ l # k /\ jobId[l] # jobId[k] /\ jobId[l] \in 1 .. jobs /\ ~Pushed(jobId[l])
               /\ Committed(jobId[l]) <=> jobAt'[l] = "committed"
    BY <1>1, <1>8, <2>1 DEF Numbered
  <2>2. ASSUME NEW l \in ReportKinds, jobAt'[l] # "idle"
        PROVE  /\ jobId'[l] = jobId[l] /\ jobId[l] \in 1 .. jobs /\ ~Pushed(jobId[l])'
               /\ Committed(jobId[l])' <=> jobAt'[l] = "committed"
    BY <1>4, <1>6, <1>8, <2>1, <2>2
  <2>3. QED
    <3>1. \A l, m \in ReportKinds :
            jobAt'[l] # "idle" /\ jobAt'[m] # "idle" /\ jobId'[l] = jobId'[m] => l = m
      BY <1>8 DEF Numbered
    <3>2. QED
      BY <1>1, <1>4, <2>2, <3>1 DEF Numbered, Committed, Pushed
<1>10. ReadCompletely'
  <2>1. disclosed' = disclosed /\ Len(disclosed) \in Nat
    BY <1>1 DEF tableVars, ReportTypeOK
  <2>2. QED
    BY <1>8, <2>1 DEF ReadCompletely, Complete
<1>11. QED
  BY <1>4, <1>6, <1>7, <1>9, <1>10

LEMMA ReportNextIInv == ReportIInv /\ [ReportNext]_reportVars => ReportIInv'
<1> SUFFICES ASSUME ReportIInv, [ReportNext]_reportVars PROVE ReportIInv'
  OBVIOUS
<1>1. CASE NextDate \/ Store \/ Refresh
  BY <1>1, TableStep
<1>2. ASSUME NEW k \in ReportKinds, BeginReport(k) PROVE ReportIInv'
  BY <1>2, BeginReportStep
<1>3. ASSUME NEW k \in ReportKinds, Gather(k) \/ ReadHeld(k) \/ Compose(k) PROVE ReportIInv'
  BY <1>3, ReadStep
<1>4. ASSUME NEW k \in ReportKinds, CommitReport(k) PROVE ReportIInv'
  BY <1>4, CommitReportStep
<1>5. ASSUME NEW k \in ReportKinds, PushReport(k) \/ TemplateRaised(k) \/ JobDies(k) PROVE ReportIInv'
  BY <1>5, EndJobStep
<1>6. CASE UNCHANGED reportVars
  BY <1>6 DEF reportVars, tableVars, jobVars, ReportIInv, ReportTypeOK, Numbered, PushedIsCommitted,
              Committed, Pushed, ReadCompletely, StoredCompletely, Complete
<1>7. QED
  BY <1>1, <1>2, <1>3, <1>4, <1>5, <1>6 DEF ReportNext

-----------------------------------------------------------------------------

\* The tables, the jobs and their texts stay in their types.
THEOREM ReportTypeCorrect == ReportSpec => []ReportTypeOK
<1>1. ReportIInv => ReportTypeOK
  BY DEF ReportIInv
<1>2. QED
  BY <1>1, ReportInitIInv, ReportNextIInv, PTL DEF ReportSpec

\* The phone shows what the dashboard has, and once.
THEOREM PushesAreCommitted == ReportSpec => []PushedIsCommitted
<1>1. ReportIInv => PushedIsCommitted
  BY DEF ReportIInv
<1>2. QED
  BY <1>1, ReportInitIInv, ReportNextIInv, PTL DEF ReportSpec

\* What was stored in time is in the report, up to the query's limit, and a
\* briefing does not deny it.
THEOREM DisclosuresAreReported == ReportSpec => []StoredInTimeIsReported
<1>1. ReportIInv => StoredInTimeIsReported
  BY DEF ReportIInv, StoredCompletely, Complete, StoredInTimeIsReported
<1>2. QED
  BY <1>1, ReportInitIInv, ReportNextIInv, PTL DEF ReportSpec

-----------------------------------------------------------------------------
(***************************************************************************)
(* The pipeline health check.                                              *)
(***************************************************************************)

USE WatchAssumption

WatchTypes ==
    /\ slot \in Nat /\ newest \in {Never} \cup Nat
    /\ warned \in [Sources -> {Never} \cup Nat]
    /\ retried \subseteq due

\* The check of this slot has spoken if its pod is tried a second time.
RetryHasWarned ==
    "pipeline_health" \in retried /\ StalledBy(newest) <= slot => warned["disclosures"] >= slot

\* The inductive invariant.
WatchIInv == WatchTypes /\ RetryHasWarned /\ StallIsNoticed

LEMMA WatchInitIInv == WatchInit => WatchIInv
<1> SUFFICES ASSUME WatchInit PROVE WatchIInv
  OBVIOUS
<1> USE DEF WatchInit
<1>1. WatchTypes /\ RetryHasWarned
  BY DEF WatchTypes, RetryHasWarned, Never
<1>2. Checked(StalledBy(newest), slot) = {}
  BY DEF Checked, StalledBy, Scheduled, InDay, Never
<1>3. QED
  BY <1>1, <1>2 DEF WatchIInv, StallIsNoticed

\* The slots that are past have been checked; the new one's check is due.
LEMMA NextSlotStep == WatchIInv /\ NextSlot => WatchIInv'
<1> SUFFICES ASSUME WatchIInv, NextSlot PROVE WatchIInv'
  OBVIOUS
<1> USE DEF WatchIInv, NextSlot
<1>1. WatchTypes'
  BY DEF WatchTypes
<1>2. RetryHasWarned'
  BY DEF RetryHasWarned
<1>3. ASSUME NEW t \in Checked(StalledBy(newest), slot)' PROVE warned'["disclosures"] >= t
  <2>1. t \in StalledBy(newest) .. slot + 1 /\ InDay(t) \in HourlySlots /\ t \notin unchecked
    BY <1>3 DEF Checked, StalledBy
  <2>2. t # slot + 1
    BY <1>3, <2>1 DEF Checked, Scheduled
  <2>3. t \in Checked(StalledBy(newest), slot)
    BY <2>1, <2>2 DEF Checked, WatchTypes, StalledBy, Never
  <2>4. QED
    BY <2>3 DEF StallIsNoticed
<1>4. QED
  BY <1>1, <1>2, <1>3 DEF StallIsNoticed

\* A filing can only put the limit off.
LEMMA FilingStep == WatchIInv /\ FilingStored => WatchIInv'
<1> SUFFICES ASSUME WatchIInv, FilingStored PROVE WatchIInv'
  OBVIOUS
<1> USE DEF WatchIInv
<1>1. /\ newest' \in Int /\ newest' > newest
      /\ UNCHANGED <<slot, due, retried, warned, unchecked>>
  BY DEF FilingStored, WatchTypes
<1>2. WatchTypes'
  BY <1>1 DEF WatchTypes, Never
<1>3. /\ newest \in Int /\ slot \in Int /\ StaleAfter \in Int
      /\ StalledBy(newest) \in Int /\ StalledBy(newest') \in Int
      /\ StalledBy(newest) <= StalledBy(newest')
  <2>1. newest \in Int
    BY DEF WatchTypes, Never
  <2>2. slot \in Int
    BY DEF WatchTypes
  <2>3. StaleAfter \in Nat
    OBVIOUS
  <2>4. newest' \in Int /\ newest < newest'
    BY <1>1
  <2>5. newest' \in Nat
    BY <1>1 DEF WatchTypes, Never
  <2>6. StalledBy(newest) <= StalledBy(newest')
    <3>1. newest' # Never
      BY <2>5 DEF Never
    <3>2. StalledBy(newest') = newest' + StaleAfter + 1
      BY <3>1, Zenon DEF StalledBy
    <3>3. CASE newest = Never
      <4>1. StalledBy(newest) = 0
        BY <3>3, Zenon DEF StalledBy
      <4>2. \A n \in Nat : 0 <= n + StaleAfter + 1
        BY <2>3
      <4>3. QED
        BY <2>5, <3>2, <4>1, <4>2, Zenon
    <3>4. CASE newest # Never
      <4>1. StalledBy(newest) = newest + StaleAfter + 1
        BY <3>4, Zenon DEF StalledBy
      <4>2. \A m, n \in Int : m < n => m + StaleAfter + 1 <= n + StaleAfter + 1
        BY <2>3
      <4>3. QED
        BY <2>1, <2>4, <3>2, <4>1, <4>2, Zenon
    <3>5. QED
      BY <3>3, <3>4
  <2>7. StalledBy(newest) \in Int
    BY <2>1, <2>3 DEF StalledBy
  <2>8. StalledBy(newest') \in Int
    BY <2>3, <2>4 DEF StalledBy
  <2>9. QED
    BY <2>1, <2>2, <2>3, <2>6, <2>7, <2>8
<1>4. RetryHasWarned'
  BY <1>1, <1>3 DEF RetryHasWarned
<1>5. StallIsNoticed'
  <2>1. Checked(StalledBy(newest'), slot) \subseteq Checked(StalledBy(newest), slot)
    BY <1>3 DEF Checked
  <2>2. Checked(StalledBy(newest), slot)' = Checked(StalledBy(newest'), slot)
    BY <1>1 DEF Checked
  <2>3. QED
    BY <1>1, <2>1, <2>2 DEF StallIsNoticed
<1>6. QED
  BY <1>2, <1>4, <1>5

\* What leaves the health check's own state alone.
LEMMA OthersStep ==
    ASSUME WatchIInv, UNCHANGED <<slot, newest, warned, unchecked>>, retried' \subseteq due',
           "pipeline_health" \in due' <=> "pipeline_health" \in due,
           "pipeline_health" \in retried' <=> "pipeline_health" \in retried
    PROVE  WatchIInv'
  BY DEF WatchIInv, WatchTypes, RetryHasWarned, StallIsNoticed, Checked, StalledBy

\* A check that comes through speaks if the limit is past.
LEMMA HealthStep == WatchIInv /\ PipelineHealth => WatchIInv'
<1> SUFFICES ASSUME WatchIInv, PipelineHealth PROVE WatchIInv'
  OBVIOUS
<1> USE DEF WatchIInv
<1>1. UNCHANGED <<slot, newest, unchecked>> /\ retried' \subseteq due' /\ due' \subseteq due
  BY DEF PipelineHealth, Ends, WatchTypes
<1>2. warned' \in [Sources -> {Never} \cup Nat]
  BY DEF PipelineHealth, WatchTypes
<1>3. StalledBy(newest) <= slot => warned'["disclosures"] = slot
  <2>1. StalledBy(newest) <= slot => DisclosuresStalled
    BY DEF StalledBy, DisclosuresStalled, WatchTypes, Never
  <2>2. QED
    BY <2>1 DEF PipelineHealth, Sources, WatchTypes
<1>4. WatchTypes' /\ RetryHasWarned'
  BY <1>1, <1>2, <1>3 DEF WatchTypes, RetryHasWarned, StalledBy
<1>5. StallIsNoticed'
  <2>1. ASSUME NEW t \in Checked(StalledBy(newest), slot)' PROVE warned'["disclosures"] >= t
    <3>1. t \in StalledBy(newest) .. slot
      BY <1>1, <2>1 DEF Checked, StalledBy
    <3>2. QED
      BY <1>3, <3>1 DEF WatchTypes, StalledBy, Never
  <2>2. QED
    BY <2>1 DEF StallIsNoticed
<1>6. QED
  BY <1>4, <1>5

\* A check that is lost is not counted; a second try that is lost has spoken before.
LEMMA LostStep == ASSUME WatchIInv, NEW j \in WatchJobs, RunLost(j) PROVE WatchIInv'
<1> USE DEF WatchIInv
<1>1. /\ UNCHANGED <<slot, newest, warned>>
      /\ due' = due \ {j} /\ retried' = retried \ {j} /\ unchecked \subseteq unchecked'
  BY DEF RunLost
<1>2. WatchTypes' /\ RetryHasWarned'
  BY <1>1 DEF WatchTypes, RetryHasWarned, StalledBy
<1>3. ASSUME NEW t \in Checked(StalledBy(newest), slot)' PROVE warned'["disclosures"] >= t
  <2>1. t \in StalledBy(newest) .. slot /\ InDay(t) \in HourlySlots /\ t \notin unchecked
    BY <1>1, <1>3 DEF Checked, StalledBy
  <2>2. CASE t = slot /\ "pipeline_health" \in due
    <3>1. j = "pipeline_health"
      BY <1>1, <1>3, <2>2 DEF Checked
    <3>2. j \in retried
      BY <1>1, <1>3, <2>2, <3>1 DEF Checked, RunLost
    <3>3. QED
      BY <1>1, <2>1, <2>2, <3>1, <3>2 DEF RetryHasWarned, WatchTypes, StalledBy, Never
  <2>3. CASE ~(t = slot /\ "pipeline_health" \in due)
    <3>1. t \in Checked(StalledBy(newest), slot)
      BY <2>1, <2>3 DEF Checked
    <3>2. QED
      BY <1>1, <3>1 DEF StallIsNoticed
  <2>4. QED
    BY <2>2, <2>3
<1>4. QED
  BY <1>2, <1>3 DEF StallIsNoticed

LEMMA WatchNextIInv == WatchIInv /\ [WatchNext]_watchVars => WatchIInv'
<1> SUFFICES ASSUME WatchIInv, [WatchNext]_watchVars PROVE WatchIInv'
  OBVIOUS
<1>1. CASE NextSlot
  BY <1>1, NextSlotStep
<1>2. CASE FilingStored
  BY <1>2, FilingStep
<1>3. CASE SignIn
  BY <1>3, OthersStep DEF SignIn, WatchIInv, WatchTypes
<1>4. CASE TokenCanary
  BY <1>4, OthersStep DEF TokenCanary, Ends, WatchIInv, WatchTypes
<1>5. CASE PipelineHealth
  BY <1>5, HealthStep
<1>6. CASE VixAlert
  BY <1>6, OthersStep DEF VixAlert, Ends, WatchIInv, WatchTypes
<1>7. CASE VixCheckRaises
  BY <1>7, OthersStep DEF VixCheckRaises, WatchIInv, WatchTypes
<1>8. ASSUME NEW j \in WatchJobs, RunLost(j) PROVE WatchIInv'
  BY <1>8, LostStep
<1>9. CASE UNCHANGED watchVars
  BY <1>9, OthersStep DEF watchVars, WatchIInv, WatchTypes
<1>10. QED
  BY <1>1, <1>2, <1>3, <1>4, <1>5, <1>6, <1>7, <1>8, <1>9 DEF WatchNext

\* A dried up feed is logged by every check that comes through after the limit, for
\* every schedule, limit and number of failures: pipeline_health.py looks at the
\* newest disclosure date anew each time and remembers nothing.
THEOREM StallsAreNoticed == WatchSpec => []StallIsNoticed
<1>1. WatchIInv => StallIsNoticed
  BY DEF WatchIInv
<1>2. QED
  BY <1>1, WatchInitIInv, WatchNextIInv, PTL DEF WatchSpec

\* The midnight before a slot, and the one before that.
LEMMA Midnights ==
    ASSUME NEW t \in Nat
    PROVE  /\ t \div SlotsPerDay \in Nat /\ (t \div SlotsPerDay) * SlotsPerDay \in 0 .. t
           /\ t \div SlotsPerDay - 1 >= 0 \/ (t \div SlotsPerDay - 1) * SlotsPerDay < 0
           /\ t \div SlotsPerDay - 1 >= 0 => (t \div SlotsPerDay - 1) * SlotsPerDay \in 0 .. t
<1> DEFINE d == SlotsPerDay
<1>1. d \in Nat /\ d > 0
  OBVIOUS
<1> HIDE DEF d
<1>2. PICK k \in Int, r \in 0 .. d - 1 : k = t \div d /\ t = d * k + r
  BY <1>1
<1>3. ASSUME NEW n \in Int, n < 0 PROVE d * n <= 0 - d
  BY <1>1, <1>3
<1>4. k \in Nat
  BY <1>1, <1>2, <1>3
<1>5. d * k = k * d /\ k * d \in Nat /\ k * d <= t
  BY <1>1, <1>2, <1>4
<1>6. (k - 1) * d = k * d - d /\ (d <= k * d \/ k = 0)
  BY <1>1, <1>4
<1>7. k = 0 => (k - 1) * d < 0
  BY <1>1
<1> QED
  BY <1>1, <1>2, <1>4, <1>5, <1>6, <1>7 DEF d

\* The watchdogs' variables have their types.
LEMMA WatchInitType == WatchInit => WatchTypeOK
<1> SUFFICES ASSUME WatchInit PROVE WatchTypeOK
  OBVIOUS
<1>1. Scheduled(0) \subseteq WatchJobs
  BY DEF Scheduled, WatchJobs
<1>2. LastSlot \in Nat /\ TokenLife \in Nat /\ MaxFailures \in Nat
  OBVIOUS
<1>3. warned \in [Sources -> Never .. slot]
  BY DEF WatchInit, Never
<1> QED
  BY <1>1, <1>2, <1>3 DEF WatchInit, WatchTypeOK, Never

LEMMA WatchStepType == WatchTypeOK /\ [WatchNext]_watchVars => WatchTypeOK'
<1> SUFFICES ASSUME WatchTypeOK, [WatchNext]_watchVars PROVE WatchTypeOK'
  OBVIOUS
<1>1. /\ LastSlot \in Nat /\ TokenLife \in Nat /\ MaxFailures \in Nat
      /\ slot \in 0 .. LastSlot /\ newest \in Int /\ newest >= Never /\ newest <= slot
      /\ due \subseteq WatchJobs /\ retried \subseteq due
      /\ failures \in 0 .. MaxFailures /\ unchecked \subseteq 0 .. slot
      /\ warned \in [Sources -> Never .. slot] /\ heard \subseteq Notices
  BY DEF WatchTypeOK, Never
<1>2. \A t : Scheduled(t) \subseteq WatchJobs
  BY DEF Scheduled, WatchJobs
<1>3. ASSUME NEW j \in WatchJobs, j \in due, Ends(j)
      PROVE  due' \subseteq WatchJobs /\ retried' \subseteq due' /\ failures' \in 0 .. MaxFailures
  <2>1. CASE due' = due \ {j} /\ retried' = retried \ {j} /\ UNCHANGED failures
    BY <1>1, <2>1
  <2>2. CASE /\ j \notin retried /\ failures < MaxFailures
             /\ retried' = retried \cup {j} /\ failures' = failures + 1
             /\ UNCHANGED due
    BY <1>1, <1>3, <2>2
  <2> QED
    BY <1>3, <2>1, <2>2 DEF Ends
<1>4. CASE NextSlot
  <2>1. slot' \in 0 .. LastSlot /\ slot' = slot + 1 /\ due' \subseteq WatchJobs /\ retried' = {}
    BY <1>1, <1>2, <1>4 DEF NextSlot
  <2>2. warned' \in [Sources -> Never .. slot']
    <3>1. \A n \in Never .. slot : n \in Never .. slot'
      BY <1>1, <2>1 DEF Never
    <3>2. warned' = warned
      BY <1>4 DEF NextSlot
    <3> HIDE DEF Never
    <3> QED
      BY <1>1, <3>1, <3>2
  <2>3. newest' \in Never .. slot' /\ unchecked' \subseteq 0 .. slot'
    BY <1>1, <1>4, <2>1 DEF NextSlot, Never
  <2> QED
    BY <1>4, <2>1, <2>2, <2>3 DEF NextSlot, WatchTypeOK
<1>5. CASE FilingStored
  <2>1. PICK day \in {slot \div SlotsPerDay, slot \div SlotsPerDay - 1} :
            day * SlotsPerDay > newest /\ newest' = day * SlotsPerDay
    BY <1>5 DEF FilingStored
  <2>2. newest' \in Never .. slot
    <3>1. slot \in Nat
      BY <1>1
    <3>2. CASE day = slot \div SlotsPerDay
      <4>1. (slot \div SlotsPerDay) * SlotsPerDay \in 0 .. slot
        BY <3>1, Midnights
      <4> QED
        BY <2>1, <3>2, <4>1 DEF Never
    <3>3. CASE day = slot \div SlotsPerDay - 1
      <4>1. slot \div SlotsPerDay \in Nat /\ SlotsPerDay \in Nat /\ SlotsPerDay > 0
        BY <3>1, Midnights
      <4>2. CASE slot \div SlotsPerDay - 1 >= 0
        <5>1. (slot \div SlotsPerDay - 1) * SlotsPerDay \in 0 .. slot
          BY <3>1, <4>2, Midnights
        <5> QED
          BY <2>1, <3>3, <5>1 DEF Never
      <4>3. CASE ~(slot \div SlotsPerDay - 1 >= 0)
        <5>1. (slot \div SlotsPerDay - 1) * SlotsPerDay < 0
          BY <3>1, <4>3, Midnights
        <5>2. (slot \div SlotsPerDay - 1) * SlotsPerDay \in Int
          BY <4>1
        <5> QED
          BY <1>1, <2>1, <3>3, <5>1, <5>2 DEF Never
      <4> QED
        BY <4>2, <4>3
    <3> QED
      BY <2>1, <3>2, <3>3
  <2> QED
    BY <1>5, <2>2 DEF FilingStored, WatchTypeOK
<1>6. CASE SignIn
  <2>1. slot + TokenLife \in 0 .. LastSlot + TokenLife
    BY <1>1
  <2> QED
    BY <1>6, <2>1 DEF SignIn, WatchTypeOK
<1>7. CASE TokenCanary
  <2>1. due' \subseteq WatchJobs /\ retried' \subseteq due' /\ failures' \in 0 .. MaxFailures
    BY <1>3, <1>7 DEF TokenCanary, WatchJobs
  <2>2. verdict' \in {"none", "healthy", "unhealthy"}
    BY <1>7 DEF TokenCanary
  <2> QED
    BY <1>7, <2>1, <2>2 DEF TokenCanary, WatchTypeOK
<1>8. CASE PipelineHealth
  <2>1. due' \subseteq WatchJobs /\ retried' \subseteq due' /\ failures' \in 0 .. MaxFailures
    BY <1>3, <1>8 DEF PipelineHealth, WatchJobs
  <2>2. warned' \in [Sources -> Never .. slot]
    <3>1. slot \in Never .. slot
      BY <1>1 DEF Never
    <3> DEFINE R == Never .. slot
    <3>2. \E stalled : warned' = [s \in Sources |-> IF s \in stalled THEN slot ELSE warned[s]]
      BY <1>8 DEF PipelineHealth
    <3>3. warned \in [Sources -> R] /\ slot \in R
      BY <1>1, <3>1
    <3> HIDE DEF R
    <3>4. warned' \in [Sources -> R]
      BY <3>2, <3>3
    <3> QED
      BY <3>4 DEF R
  <2> QED
    BY <1>8, <2>1, <2>2 DEF PipelineHealth, WatchTypeOK
<1>9. CASE VixAlert
  <2>1. due' \subseteq WatchJobs /\ retried' \subseteq due' /\ failures' \in 0 .. MaxFailures
    BY <1>3, <1>9 DEF VixAlert, WatchJobs
  <2>2. heard' \subseteq Notices
    <3>1. heard' \in {heard, heard \cup {"buy window"}, heard \cup {"risk off"}}
      BY <1>9 DEF VixAlert
    <3> QED
      BY <1>1, <3>1 DEF Notices
  <2> QED
    BY <1>9, <2>1, <2>2 DEF VixAlert, WatchTypeOK
<1>10. CASE VixCheckRaises
  <2>1. due' \subseteq WatchJobs /\ retried' \subseteq due'
    BY <1>1, <1>10 DEF VixCheckRaises
  <2> QED
    BY <1>10, <2>1 DEF VixCheckRaises, WatchTypeOK
<1>11. ASSUME NEW j \in WatchJobs, RunLost(j) PROVE WatchTypeOK'
  <2>1. /\ due' \subseteq WatchJobs /\ retried' \subseteq due' /\ failures' \in 0 .. MaxFailures
        /\ unchecked' \subseteq 0 .. slot
    BY <1>1, <1>11 DEF RunLost
  <2> QED
    BY <1>11, <2>1 DEF RunLost, WatchTypeOK
<1>12. CASE UNCHANGED watchVars
  BY <1>12 DEF watchVars, WatchTypeOK
<1> QED
  BY <1>4, <1>5, <1>6, <1>7, <1>8, <1>9, <1>10, <1>11, <1>12 DEF WatchNext

\* Nothing a watchdog or its CronJob does leaves the types.
THEOREM WatchTypeCorrect == WatchSpec => []WatchTypeOK
  BY WatchInitType, WatchStepType, PTL DEF WatchSpec

=============================================================================
