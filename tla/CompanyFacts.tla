---------------------------- MODULE CompanyFacts ----------------------------
(***************************************************************************)
(* Trailing-twelve-month figures from SEC company facts:                   *)
(* adapters/edgar/fundamentals.py and merge_fundamentals of                *)
(* adapters/massive/fundamentals.py.                                       *)
(*                                                                         *)
(* A company files a 10-Q for each of the first three quarters of its year *)
(* and a 10-K for the fourth, each with last year's figures beside its     *)
(* own and all under the fiscal year of the filing.  What a 10-Q says of a *)
(* quarter is the year to date, the quarter alone, or both.  The code has  *)
(* to find the discrete quarters in that.                                  *)
(*                                                                         *)
(* Quarters are numbered through the years; a period is its last quarter   *)
(* and the one before its first.  Filings are numbered in the order of     *)
(* their dates.  One flow, say revenue, under one of two tags.             *)
(***************************************************************************)
EXTENDS Integers, Sequences, FiniteSetsExt

CONSTANTS
    FirstQuarters,  \* quarters a company's record may begin with
    LastQuarter,    \* bound on the quarters filed
    Flow(_),        \* the flow of a quarter, as first reported
    MaxCorrections  \* bound on restatements and amended 10-Ks

ASSUME FactsAssumption ==
    /\ LastQuarter \in Nat /\ MaxCorrections \in Nat
    /\ FirstQuarters \subseteq 5 .. LastQuarter
    /\ \A q \in 1 .. LastQuarter : Flow(q) \in Int

VARIABLES
    facts,      \* the company's facts, in the order listed
    filings,    \* how many filings there are
    first,      \* the quarter of the first one
    quarter,    \* the next quarter to file
    style,      \* what the company's 10-Qs report, in which order
    tag,        \* the tag it reports revenue under this fiscal year
    restated,   \* quarters whose flow was restated
    corrections

factsVars == <<facts, filings, first, quarter, style, tag, restated, corrections>>

-----------------------------------------------------------------------------

Year(q) == (q - 1) \div 4
YearStart(q) == 4 * Year(q)
IsYearEnd(q) == q % 4 = 0

Tags == {1, 2}              \* _REVENUE, the first one preferred
AnnualForms == {"10-K", "10-K/A"}
Forms == AnnualForms \cup {"10-Q"}
Styles == {"ytd", "ytd_quarter", "quarter_ytd"}

Fact == [end : 1 .. LastQuarter, start : 0 .. LastQuarter, filed : Nat, form : Forms,
         fiscalYear : Nat, tag : Tags, value : Int]

FactsTypeOK ==
    /\ facts \in Seq(Fact)
    /\ filings \in Nat
    /\ first \in FirstQuarters /\ quarter \in first .. LastQuarter + 1
    /\ style \in Styles /\ tag \in Tags
    /\ restated \subseteq 1 .. LastQuarter
    /\ corrections \in 0 .. MaxCorrections

FactsInit ==
    /\ facts = <<>> /\ filings = 0
    /\ first \in FirstQuarters /\ quarter = first
    /\ style \in Styles /\ tag \in Tags
    /\ restated = {} /\ corrections = 0

-----------------------------------------------------------------------------
(***************************************************************************)
(* The company.                                                            *)
(***************************************************************************)

\* What the company says by now of a quarter, of all up to one, and of the quarters
\* start+1..end.
Reported(q) == IF q \in restated THEN 2 * Flow(q) ELSE Flow(q)
SoFar[q \in 0 .. LastQuarter] == IF q = 0 THEN 0 ELSE SoFar[q - 1] + Reported(q)
Total(start, end) == SoFar[end] - SoFar[start]

FactOf(q, form, t, end, start) ==
    [end |-> end, start |-> start, filed |-> filings + 1, form |-> form,
     fiscalYear |-> Year(q), tag |-> t, value |-> Total(start, end)]

\* The facts of a 10-Q about the period ending with a quarter.
QuarterlyFacts(q, t, end) ==
    LET ytd   == FactOf(q, "10-Q", t, end, YearStart(end))
        alone == FactOf(q, "10-Q", t, end, end - 1)
    IN  IF style = "ytd" \/ ytd = alone THEN <<ytd>>
        ELSE IF style = "ytd_quarter" THEN <<ytd, alone>> ELSE <<alone, ytd>>

\* The facts of a 10-K about its year and the two before it.
AnnualFacts(q, form, t) ==
    LET years == IF q > 8 THEN 3 ELSE q \div 4
        end(i) == q - 4 * (years - i)
    IN  [i \in 1 .. years |-> FactOf(q, form, t, end(i), YearStart(end(i)))]

\* The next 10-Q or 10-K.  A company changes its tag with a fiscal year.
File ==
    /\ quarter <= LastQuarter
    /\ tag' \in IF IsYearEnd(quarter - 1) THEN Tags ELSE {tag}
    /\ facts' = facts \o (IF IsYearEnd(quarter) THEN AnnualFacts(quarter, "10-K", tag')
                          ELSE QuarterlyFacts(quarter, tag', quarter - 4)
                               \o QuarterlyFacts(quarter, tag', quarter))
    /\ filings' = filings + 1
    /\ quarter' = quarter + 1
    /\ UNCHANGED <<first, style, restated, corrections>>

\* A 10-K/A for a year whose 10-K is filed.  (A 10-Q/A is not among _FORMS.)
AmendAnnual(q) ==
    /\ corrections < MaxCorrections
    /\ corrections' = corrections + 1
    /\ facts' = facts \o AnnualFacts(q, "10-K/A", tag)
    /\ filings' = filings + 1
    /\ UNCHANGED <<first, quarter, style, tag, restated>>

\* From now on a past quarter has another figure.
Restate(q) ==
    /\ corrections < MaxCorrections
    /\ corrections' = corrections + 1
    /\ q \notin restated
    /\ restated' = restated \cup {q}
    /\ UNCHANGED <<facts, filings, first, quarter, style, tag>>

FactsNext ==
    \/ File
    \/ \E q \in first .. quarter - 1 :
        \/ IsYearEnd(q) /\ AmendAnnual(q)
        \/ Restate(q)

FactsSpec == FactsInit /\ [][FactsNext]_factsVars

-----------------------------------------------------------------------------
(***************************************************************************)
(* The code.                                                               *)
(***************************************************************************)

\* The code's lists of facts are sets of places in facts.
Ends(I) == {facts[i].end : i \in I}

\* _concept, asked when everything is filed: the facts under the first tag, and
\* those under the second for ends the first has none for.  The facts of one end
\* are all under one tag, in the order listed.
Concept ==
    LET under(t) == {i \in DOMAIN facts : facts[i].tag = t}
    IN  under(1) \cup {i \in under(2) : facts[i].end \notin Ends(under(1))}

\* The latest filed, and of those the one listed first.
Latest(I) ==
    facts[CHOOSE i \in I : \A j \in I :
              facts[j].filed < facts[i].filed \/ (facts[j].filed = facts[i].filed /\ i <= j)]

\* _one_per_end.
OnePerEnd == [e \in Ends(Concept) |-> Latest({i \in Concept : facts[i].end = e})]

\* Faulty variant: any year-to-date figure of an earlier quarter is subtracted.
PriorYtdAnyStart(chosen, e) ==
    {d \in DOMAIN chosen : d < e /\ chosen[d].form = "10-Q"
                              /\ chosen[d].fiscalYear = chosen[e].fiscalYear}

\* The quarters whose figure a later one of the same year contains.
PriorYtd(chosen, e) ==
    {d \in DOMAIN chosen : d < e /\ chosen[d].form = "10-Q"
                              /\ chosen[d].fiscalYear = chosen[e].fiscalYear
                              /\ chosen[d].start = chosen[e].start}

LastThree(out) ==
    LET n == Len(out) IN out[n - 2].value + out[n - 1].value + out[n].value

\* One period of _quarters: a year's end is the year less the three before it.
AddQuarter(chosen, out, e) ==
    LET f == chosen[e]
        prior == PriorYtd(chosen, e)
        add(v) == Append(out, [end |-> e, value |-> v])
    IN  IF f.form \in AnnualForms
        THEN IF Len(out) < 3 THEN out ELSE add(f.value - LastThree(out))
        ELSE add(f.value - IF prior = {} THEN 0 ELSE chosen[Max(prior)].value)

\* _quarters, as far as each quarter.
Quarters ==
    LET chosen == OnePerEnd
        out[e \in 0 .. LastQuarter] ==
            IF e = 0 THEN <<>>
            ELSE IF e \in DOMAIN chosen THEN AddQuarter(chosen, out[e - 1], e)
            ELSE out[e - 1]
    IN  out

\* _ttm, as the set of its value or {} for None.
Ttm(e) ==
    LET annual == {i \in Concept : facts[i].end = e /\ facts[i].form \in AnnualForms}
        eligible == Quarters[e]
        n == Len(eligible)
    IN  IF annual # {} THEN {Latest(annual).value}
        ELSE IF n < 4 \/ eligible[n].end # e THEN {}
        ELSE {eligible[n - 3].value + LastThree(eligible)}

\* company_facts_to_fundamentals has a period for each end, the newest first, and
\* merge_fundamentals measures a period's growth against the fourth after it.
PriorYear(e) ==
    {d \in Ends(Concept) : Cardinality({c \in Ends(Concept) : d < c /\ c <= e}) = 4}

-----------------------------------------------------------------------------
(***************************************************************************)
(* Properties.                                                             *)
(***************************************************************************)

\* The flow of the four quarters up to e, if the code gives a figure at all.  A
\* restatement of either year makes it a mixture.
TwelveMonths(e) ==
    (\A q \in restated : Year(q) \notin {Year(e) - 1, Year(e)}) =>
        \A v \in Ttm(e) : v = Total(e - 4, e)

\* The company's record does not begin in the middle of the year before e or of
\* e's own.  If it does, that year's end may have no row for lack of three before it,
\* and _ttm adds up four rows that do not follow one another: of a record from
\* quarter 6 on, the rows 2, 3, 5 and 6 for the twelve months to 6.
WholeYears(e) == IsYearEnd(e) \/ first % 4 \in {0, 1} \/ Year(first) + 1 < Year(e)

\* Once a year of filings is there, the newest period's figure is the flow of its
\* last four quarters and its growth is against those of the year before,
\* whatever the filings' style, tags, comparatives and amendments: subtracting
\* figures of the wrong year cancels out over the four.
NewestIsTwelveMonths ==
    quarter >= first + 4 =>
        LET newest == Max(Ends(Concept))
        IN  /\ WholeYears(newest) => TwelveMonths(newest)
            /\ PriorYear(newest) \subseteq {newest - 4}
            /\ \A e \in PriorYear(newest) : WholeYears(e) => TwelveMonths(e)

\* "History (trailing-twelve-month periods, newest first)": so is every period
\* of a company that has filed for years.
HistoryIsTwelveMonths == quarter >= first + 8 => \A e \in Ends(Concept) : TwelveMonths(e)

=============================================================================
