---------------------------- MODULE FactsProofs ----------------------------
(***************************************************************************)
(* Theorems about CompanyFacts, for any number of quarters, any flows, any *)
(* first quarter and any number of corrections.                            *)
(*                                                                         *)
(* That the newest figures are the flows of their twelve months takes four *)
(* steps: what the company has said by now is sound (FactsIInv, which is   *)
(* inductive); the facts the code chooses for the quarters of a year come  *)
(* from the filings of one year (SameYear); so a row of _quarters is the   *)
(* flow of its quarter, or what cancels against it when a year's end takes *)
(* the three rows before it away (CoveredRow); and four rows add up to the *)
(* flow of the twelve months (CoveredSum).                                 *)
(***************************************************************************)
EXTENDS DataLemmas, SequenceTheorems, CompanyFacts

USE FactsAssumption

\* Quarters come by fours.
LEMMA QuarterYear ==
    ASSUME NEW q \in Nat \ {0}
    PROVE  /\ Year(q) \in Nat /\ YearStart(q) = 4 * Year(q)
           /\ YearStart(q) \in Nat /\ YearStart(q) < q /\ q <= YearStart(q) + 4
           /\ IsYearEnd(q) <=> q = YearStart(q) + 4
           /\ Year(q + 4) = Year(q) + 1
           /\ Year(q + 1) = IF IsYearEnd(q) THEN Year(q) + 1 ELSE Year(q)
BY DEF Year, YearStart, IsYearEnd

\* A later quarter is of no earlier year.
LEMMA YearsGrow == ASSUME NEW q \in Nat \ {0}, NEW r \in Nat \ {0}, q <= r PROVE Year(q) <= Year(r)
BY DEF Year

\* A function that adds up the flows, whichever quarters are restated.
Now(R, q) == IF q \in R THEN 2 * Flow(q) ELSE Flow(q)
Adds(g, R) == g = [q \in 0 .. LastQuarter |-> IF q = 0 THEN 0 ELSE g[q - 1] + Now(R, q)]

LEMMA AddsUp ==
    ASSUME NEW R, NEW g, Adds(g, R)
    PROVE  /\ g \in [0 .. LastQuarter -> Int]
           /\ \A q \in 1 .. LastQuarter : g[q] = g[q - 1] + Now(R, q)
<1>1. \A q \in 1 .. LastQuarter : Now(R, q) \in Int
  BY DEF Now
<1>2. g = [q \in 0 .. LastQuarter |-> IF q = 0 THEN 0 ELSE g[q - 1] + Now(R, q)]
  BY DEF Adds
<1>3. LastQuarter \in Nat
  OBVIOUS
<1>4. g[0] = 0
  BY <1>2, <1>3
<1>5. ASSUME NEW q \in 1 .. LastQuarter PROVE g[q] = g[q - 1] + Now(R, q)
  <2>1. q \in 0 .. LastQuarter /\ q # 0
    BY <1>3
  <2> QED
    BY <1>2, <2>1, Zenon
<1> DEFINE G == {q \in 0 .. LastQuarter : g[q] \in Int}
<1>6. 0 \in G /\ \A q \in 1 .. LastQuarter : q - 1 \in G => q \in G
  BY <1>1, <1>3, <1>4, <1>5
<1> HIDE DEF G
<1>7. \A q \in 0 .. LastQuarter : q \in G
  BY <1>3, <1>6, UpFromZero
<1>8. \A q \in 0 .. LastQuarter : g[q] \in Int
  BY <1>7 DEF G
<1>9. g = [q \in 0 .. LastQuarter |-> g[q]]
  BY <1>2
<1> QED
  BY <1>5, <1>8, <1>9

\* There is one.
LEMMA AddsExists == ASSUME NEW R PROVE \E g : Adds(g, R)
<1> DEFINE step == [p \in (1 .. LastQuarter) \X Int |-> p[2] + Now(R, p[1])]
<1>1. \A q \in 1 .. LastQuarter : Now(R, q) \in Int
  BY DEF Now
<1>2. step \in [(1 .. LastQuarter) \X Int -> Int]
  <2>1. ASSUME NEW p \in (1 .. LastQuarter) \X Int PROVE p[2] + Now(R, p[1]) \in Int
    <3>1. p[1] \in 1 .. LastQuarter /\ p[2] \in Int
      OBVIOUS
    <3> QED
      BY <1>1, <3>1
  <2> QED
    BY <2>1, Zenon
<1>3. \A k \in 1 .. LastQuarter, v \in Int : step[<<k, v>>] = v + Now(R, k)
  OBVIOUS
<1> HIDE DEF step
<1>4. PICK h \in [0 .. LastQuarter -> Int] : CountsUp(h, LastQuarter, 0, step)
  <2>1. LastQuarter \in Nat /\ 0 \in Int
    OBVIOUS
  <2> QED
    BY <1>2, <2>1, CountExists, Zenon
<1>5. h = [q \in 0 .. LastQuarter |-> IF q = 0 THEN 0 ELSE step[<<q, h[q - 1]>>]]
  BY <1>4 DEF CountsUp
<1>6. ASSUME NEW q \in 0 .. LastQuarter, q # 0 PROVE step[<<q, h[q - 1]>>] = h[q - 1] + Now(R, q)
  <2>1. q \in 1 .. LastQuarter /\ h[q - 1] \in Int
    BY <1>6
  <2> QED
    BY <1>3, <2>1
<1>7. [q \in 0 .. LastQuarter |-> IF q = 0 THEN 0 ELSE step[<<q, h[q - 1]>>]]
      = [q \in 0 .. LastQuarter |-> IF q = 0 THEN 0 ELSE h[q - 1] + Now(R, q)]
  BY <1>6
<1> QED
  BY <1>5, <1>7, Zenon DEF Adds

\* SoFar is it.
LEMMA SoFarIs ==
    /\ SoFar \in [0 .. LastQuarter -> Int]
    /\ \A q \in 1 .. LastQuarter : SoFar[q] = SoFar[q - 1] + Now(restated, q)
<1>1. SoFar = CHOOSE h : Adds(h, restated)
  BY DEF SoFar, Reported, Adds, Now
<1>2. Adds(SoFar, restated)
  BY <1>1, AddsExists, Zenon
<1> QED
  BY <1>2, AddsUp, Zenon

\* The total over quarters of which none is restated by now is what it was.
LEMMA TotalStays ==
    ASSUME NEW start \in 0 .. LastQuarter, NEW end \in start .. LastQuarter,
           restated \subseteq restated', \A q \in start + 1 .. end : q \notin restated'
    PROVE  SoFar'[end] - SoFar'[start] = SoFar[end] - SoFar[start]
<1> DEFINE then == SoFar
           now == SoFar'
<1>1. now = CHOOSE h : Adds(h, restated')
  BY DEF SoFar, Reported, Adds, Now
<1> HIDE DEF now
<1>2. /\ now \in [0 .. LastQuarter -> Int]
      /\ \A q \in 1 .. LastQuarter : now[q] = now[q - 1] + Now(restated', q)
  <2>1. Adds(now, restated')
    BY <1>1, AddsExists, Zenon
  <2> QED
    BY <2>1, AddsUp, Zenon
<1>3. /\ then \in [0 .. LastQuarter -> Int]
      /\ \A q \in 1 .. LastQuarter : then[q] = then[q - 1] + Now(restated, q)
  BY SoFarIs, Zenon
<1> SUFFICES now[end] - now[start] = then[end] - then[start]
  BY DEF now
<1> HIDE DEF then
<1> DEFINE G == {k \in 0 .. LastQuarter : k \in start .. end =>
                    now[k] - now[start] = then[k] - then[start]}
<1>4. 0 \in G
  BY <1>2, <1>3
<1>5. ASSUME NEW k \in 1 .. LastQuarter, k - 1 \in G PROVE k \in G
  <2>0. k - 1 \in 0 .. LastQuarter /\ k \in 0 .. LastQuarter
    OBVIOUS
  <2> SUFFICES ASSUME k \in start .. end, k # start PROVE now[k] - now[start] = then[k] - then[start]
    <3>1. now[start] \in Int /\ then[start] \in Int
      BY <1>2, <1>3
    <3> QED
      BY <2>0, <3>1
  <2>1. k \notin restated /\ k \notin restated'
    OBVIOUS
  <2>2. now[k] = now[k - 1] + Flow(k) /\ then[k] = then[k - 1] + Flow(k)
    BY <1>2, <1>3, <2>1 DEF Now
  <2>3. now[k - 1] - now[start] = then[k - 1] - then[start]
    BY <1>5
  <2>4. /\ now[k - 1] \in Int /\ now[start] \in Int /\ then[k - 1] \in Int /\ then[start] \in Int
        /\ Flow(k) \in Int
    BY <1>2, <1>3
  <2> QED
    BY <2>2, <2>3, <2>4
<1> HIDE DEF G
<1>6. end \in G
  <2>1. LastQuarter \in Nat /\ end \in 0 .. LastQuarter
    OBVIOUS
  <2> QED
    BY <1>4, <1>5, <2>1, UpFromZero
<1> QED
  BY <1>6 DEF G

\* Whatever is restated, the flow of some quarters is a number.
LEMMA TotalIsInt ==
    ASSUME NEW start \in 0 .. LastQuarter, NEW end \in 0 .. LastQuarter
    PROVE  Total(start, end) \in Int
BY SoFarIs DEF Total

-----------------------------------------------------------------------------
(***************************************************************************)
(* Types.                                                                  *)
(***************************************************************************)

\* Where the year of a quarter begins.
LEMMA YearStarts == ASSUME NEW q \in 1 .. LastQuarter PROVE Year(q) \in Nat /\ YearStart(q) \in 0 .. LastQuarter
<1>1. q \in Nat \ {0} /\ q <= LastQuarter
  OBVIOUS
<1> QED
  BY <1>1, QuarterYear

\* What the company files are facts.
LEMMA FactType ==
    ASSUME FactsTypeOK, NEW q \in 1 .. LastQuarter, NEW form \in Forms, NEW t \in Tags,
           NEW end \in 1 .. LastQuarter, NEW start \in 0 .. LastQuarter
    PROVE  FactOf(q, form, t, end, start) \in Fact
<1>1. filings + 1 \in Nat
  BY DEF FactsTypeOK
<1>2. Year(q) \in Nat
  BY YearStarts
<1>3. Total(start, end) \in Int
  BY TotalIsInt
<1> QED
  BY <1>1, <1>2, <1>3 DEF FactOf, Fact

LEMMA QuarterlyType ==
    ASSUME FactsTypeOK, NEW q \in 1 .. LastQuarter, NEW t \in Tags, NEW end \in 1 .. LastQuarter
    PROVE  QuarterlyFacts(q, t, end) \in Seq(Fact)
<1> DEFINE ytd == FactOf(q, "10-Q", t, end, YearStart(end))
           alone == FactOf(q, "10-Q", t, end, end - 1)
<1>1. ytd \in Fact /\ alone \in Fact
  <2>1. "10-Q" \in Forms /\ YearStart(end) \in 0 .. LastQuarter /\ end - 1 \in 0 .. LastQuarter
    BY YearStarts DEF Forms
  <2> QED
    BY <2>1, FactType
<1>2. QuarterlyFacts(q, t, end) \in {<<ytd>>, <<ytd, alone>>, <<alone, ytd>>}
  BY DEF QuarterlyFacts
<1> HIDE DEF ytd, alone
<1>3. <<ytd>> \in Seq(Fact) /\ <<ytd, alone>> \in Seq(Fact) /\ <<alone, ytd>> \in Seq(Fact)
  <2> HIDE DEF Fact
  <2> QED
    BY <1>1
<1> QED
  BY <1>2, <1>3, Zenon

LEMMA AnnualType ==
    ASSUME FactsTypeOK, NEW q \in 5 .. LastQuarter, IsYearEnd(q), NEW form \in AnnualForms, NEW t \in Tags
    PROVE  AnnualFacts(q, form, t) \in Seq(Fact)
<1> DEFINE years == IF q > 8 THEN 3 ELSE q \div 4
           end(i) == q - 4 * (years - i)
<1>1. years \in Nat /\ \A i \in 1 .. years : end(i) \in 1 .. LastQuarter
  BY DEF IsYearEnd
<1>2. ASSUME NEW i \in 1 .. years
      PROVE  FactOf(q, form, t, end(i), YearStart(end(i))) \in Fact
  <2>1. end(i) \in 1 .. LastQuarter
    BY <1>1
  <2> HIDE DEF end
  <2>2. YearStart(end(i)) \in 0 .. LastQuarter /\ form \in Forms /\ q \in 1 .. LastQuarter
    BY <2>1, YearStarts DEF Forms
  <2> QED
    BY <2>1, <2>2, FactType
<1>3. AnnualFacts(q, form, t) = [i \in 1 .. years |-> FactOf(q, form, t, end(i), YearStart(end(i)))]
  BY DEF AnnualFacts
<1> HIDE DEF years, end
<1> QED
  BY <1>1, <1>2, <1>3

LEMMA FactsInitType == FactsInit => FactsTypeOK
<1> SUFFICES ASSUME FactsInit PROVE FactsTypeOK
  OBVIOUS
<1>1. first \in FirstQuarters /\ first \in 5 .. LastQuarter
  BY DEF FactsInit
<1> QED
  BY <1>1 DEF FactsInit, FactsTypeOK

\* Every step keeps the types.
LEMMA FactsStepType == FactsTypeOK /\ [FactsNext]_factsVars => FactsTypeOK'
<1> SUFFICES ASSUME FactsTypeOK, [FactsNext]_factsVars PROVE FactsTypeOK'
  OBVIOUS
<1>1. first \in 5 .. LastQuarter /\ quarter \in first .. LastQuarter + 1
  BY DEF FactsTypeOK
<1>2. ASSUME File PROVE FactsTypeOK'
  <2>1. quarter \in 5 .. LastQuarter /\ quarter - 4 \in 1 .. LastQuarter /\ tag' \in Tags
    BY <1>1, <1>2 DEF File, FactsTypeOK
  <2>2. /\ QuarterlyFacts(quarter, tag', quarter - 4) \in Seq(Fact)
        /\ QuarterlyFacts(quarter, tag', quarter) \in Seq(Fact)
    BY <2>1, QuarterlyType
  <2>3. IsYearEnd(quarter) => AnnualFacts(quarter, "10-K", tag') \in Seq(Fact)
    BY <2>1, AnnualType DEF AnnualForms
  <2>4. facts' \in Seq(Fact)
    BY <1>2, <2>2, <2>3 DEF File, FactsTypeOK
  <2> QED
    BY <1>1, <1>2, <2>1, <2>4 DEF File, FactsTypeOK
<1>3. ASSUME NEW q \in first .. quarter - 1, IsYearEnd(q), AmendAnnual(q) PROVE FactsTypeOK'
  <2>1. q \in 5 .. LastQuarter
    BY <1>1
  <2>2. AnnualFacts(q, "10-K/A", tag) \in Seq(Fact)
    BY <1>3, <2>1, AnnualType DEF AnnualForms, FactsTypeOK
  <2> QED
    BY <1>3, <2>2 DEF AmendAnnual, FactsTypeOK
<1>4. ASSUME NEW q \in first .. quarter - 1, Restate(q) PROVE FactsTypeOK'
  <2>1. q \in 1 .. LastQuarter
    BY <1>1
  <2> QED
    BY <1>4, <2>1 DEF Restate, FactsTypeOK
<1>5. ASSUME UNCHANGED factsVars PROVE FactsTypeOK'
  BY <1>5 DEF factsVars, FactsTypeOK
<1> QED
  BY <1>2, <1>3, <1>4, <1>5 DEF FactsNext

\* The variables of the company's facts stay in their types.
THEOREM FactsTypeCorrect == FactsSpec => []FactsTypeOK
BY FactsInitType, FactsStepType, PTL DEF FactsSpec

-----------------------------------------------------------------------------
(***************************************************************************)
(* What the company has said by now.                                       *)
(***************************************************************************)

\* The filing's start of a period, if it has only one to choose.
StartFor(e) == IF style = "quarter_ytd" THEN e - 1 ELSE YearStart(e)

\* The quarter whose 10-Q a fact is from.
FiledFor(f) == f.end + 4 * (f.fiscalYear - Year(f.end))

FactSound(f) ==
    /\ f.filed <= filings /\ f.end < quarter
    /\ YearStart(f.end) <= f.start /\ f.start < f.end
    /\ f.form = "10-Q" =>
        /\ ~IsYearEnd(f.end)
        /\ FiledFor(f) \in {f.end, f.end + 4} /\ first <= FiledFor(f) /\ FiledFor(f) < quarter
    /\ f.form # "10-Q" => IsYearEnd(f.end) /\ f.start = YearStart(f.end)
    /\ (\A q \in f.start + 1 .. f.end : q \notin restated) => f.value = Total(f.start, f.end)

\* The 10-Qs of a fiscal year are under one tag and after those of the year before.
YearsInOrder ==
    \A i, j \in DOMAIN facts : facts[i].form = "10-Q" /\ facts[j].form = "10-Q" =>
        /\ facts[i].fiscalYear = facts[j].fiscalYear => facts[i].tag = facts[j].tag
        /\ facts[i].fiscalYear < facts[j].fiscalYear => facts[i].filed < facts[j].filed
        /\ facts[i].fiscalYear = Year(quarter) => facts[i].tag = tag

\* What a 10-Q lists second of a period has the other start.
FirstListed ==
    \A i \in DOMAIN facts : facts[i].form = "10-Q" /\ facts[i].start # StartFor(facts[i].end) =>
        \E j \in DOMAIN facts :
            /\ j < i /\ facts[j].start = StartFor(facts[i].end)
            /\ facts[j].form = "10-Q" /\ facts[j].end = facts[i].end
            /\ facts[j].filed = facts[i].filed /\ facts[j].tag = facts[i].tag

\* Each filing has its quarter and that of the year before.
AllFiled ==
    \A q \in first .. quarter - 1 : \A e \in {q, q - 4} : \E i \in DOMAIN facts :
        /\ facts[i].end = e
        /\ IF IsYearEnd(q) THEN facts[i].form # "10-Q"
           ELSE facts[i].form = "10-Q" /\ facts[i].fiscalYear = Year(q)

FactsSound == \A i \in DOMAIN facts : FactSound(facts[i])

\* The inductive invariant.
FactsIInv ==
    /\ FactsTypeOK /\ FactsSound
    /\ YearsInOrder /\ FirstListed /\ AllFiled

-----------------------------------------------------------------------------

\* A 10-Q lists one or two figures of a period, the one with StartFor first.
LEMMA QuarterlyLists ==
    ASSUME style \in Styles, NEW q, NEW t, NEW end \in Nat \ {0}, NEW s, s = QuarterlyFacts(q, t, end)
    PROVE  /\ 1 \in DOMAIN s /\ DOMAIN s \subseteq Nat
           /\ \E n \in 1 .. 2 : DOMAIN s = 1 .. n /\ Len(s) = n
           /\ s[1] = FactOf(q, "10-Q", t, end, StartFor(end))
           /\ \A i \in DOMAIN s : \E start \in {YearStart(end), end - 1} :
                s[i] = FactOf(q, "10-Q", t, end, start)
<1> DEFINE ytd == FactOf(q, "10-Q", t, end, YearStart(end))
           alone == FactOf(q, "10-Q", t, end, end - 1)
<1>1. s = IF style = "ytd" \/ ytd = alone THEN <<ytd>>
          ELSE IF style = "ytd_quarter" THEN <<ytd, alone>> ELSE <<alone, ytd>>
  BY DEF QuarterlyFacts, Styles
<1>2. ytd = alone => YearStart(end) = end - 1
  <2>1. ytd.start = YearStart(end) /\ alone.start = end - 1
    BY DEF FactOf
  <2> QED
    BY <2>1
<1>3. FactOf(q, "10-Q", t, end, StartFor(end)) = IF style = "quarter_ytd" THEN alone ELSE ytd
  BY DEF StartFor
<1> HIDE DEF ytd, alone
<1>4. CASE style = "ytd" \/ ytd = alone
  BY <1>1, <1>2, <1>3, <1>4 DEF ytd, StartFor
<1>5. CASE ~(style = "ytd" \/ ytd = alone) /\ style = "ytd_quarter"
  <2>1. s = <<ytd, alone>> /\ s[1] = ytd /\ s[2] = alone /\ DOMAIN s = 1 .. 2 /\ Len(s) = 2
    BY <1>1, <1>5
  <2>2. \A i \in DOMAIN s : i = 1 \/ i = 2
    BY <2>1
  <2> QED
    BY <1>3, <1>5, <2>1, <2>2 DEF ytd, alone
<1>6. CASE ~(style = "ytd" \/ ytd = alone) /\ style # "ytd_quarter"
  <2>1. s = <<alone, ytd>> /\ s[1] = alone /\ s[2] = ytd /\ DOMAIN s = 1 .. 2 /\ Len(s) = 2
    BY <1>1, <1>6
  <2>2. \A i \in DOMAIN s : i = 1 \/ i = 2
    BY <2>1
  <2>3. style = "quarter_ytd"
    BY <1>6 DEF Styles
  <2> QED
    BY <1>3, <2>1, <2>2, <2>3 DEF ytd, alone
<1> QED
  BY <1>4, <1>5, <1>6

\* What is in a list made of two others.
LEMMA InTwoLists ==
    ASSUME NEW S, NEW a \in Seq(S), NEW b \in Seq(S), NEW c, c = a \o b
    PROVE  /\ c \in Seq(S) /\ Len(c) = Len(a) + Len(b) /\ DOMAIN c = 1 .. Len(c)
           /\ \A i \in DOMAIN a : i \in DOMAIN c /\ c[i] = a[i]
           /\ \A i \in DOMAIN b : i + Len(a) \in DOMAIN c /\ c[i + Len(a)] = b[i]
           /\ \A i \in DOMAIN c : i \in DOMAIN a \/ (i - Len(a) \in DOMAIN b /\ c[i] = b[i - Len(a)]
                                                     /\ i > Len(a))
<1>1. /\ c \in Seq(S) /\ Len(c) = Len(a) + Len(b)
      /\ \A i \in 1 .. Len(a) + Len(b) : c[i] = IF i <= Len(a) THEN a[i] ELSE b[i - Len(a)]
  BY ConcatProperties
<1>2. DOMAIN a = 1 .. Len(a) /\ DOMAIN b = 1 .. Len(b) /\ DOMAIN c = 1 .. Len(c)
  BY <1>1
<1>3. Len(a) \in Nat /\ Len(b) \in Nat
  OBVIOUS
<1> QED
  BY <1>1, <1>2, <1>3

\* A 10-Q lists the figures of its quarter and of the one a year before.
IsTenQ(s, q, t) ==
    /\ \A end \in {q - 4, q} : \E i \in DOMAIN s : s[i] = FactOf(q, "10-Q", t, end, StartFor(end))
    /\ \A i \in DOMAIN s : \E end \in {q - 4, q} : \E start \in {YearStart(end), end - 1} :
         /\ s[i] = FactOf(q, "10-Q", t, end, start)
         /\ start # StartFor(end) => \E j \in DOMAIN s :
                 j < i /\ s[j] = FactOf(q, "10-Q", t, end, StartFor(end))

LEMMA TenQLists ==
    ASSUME FactsTypeOK, NEW q \in 5 .. LastQuarter, NEW t \in Tags, NEW s,
           s = QuarterlyFacts(q, t, q - 4) \o QuarterlyFacts(q, t, q)
    PROVE  s \in Seq(Fact) /\ IsTenQ(s, q, t)
<1> DEFINE a == QuarterlyFacts(q, t, q - 4)
           b == QuarterlyFacts(q, t, q)
           It(end, start) == FactOf(q, "10-Q", t, end, start)
<1>1. q \in 1 .. LastQuarter /\ q - 4 \in 1 .. LastQuarter
  OBVIOUS
<1>2. a \in Seq(Fact) /\ b \in Seq(Fact)
  BY <1>1, QuarterlyType
<1>3. style \in Styles /\ q \in Nat \ {0} /\ q - 4 \in Nat \ {0}
  BY DEF FactsTypeOK
<1>4. /\ 1 \in DOMAIN a /\ DOMAIN a \subseteq Nat /\ a[1] = It(q - 4, StartFor(q - 4))
      /\ \A i \in DOMAIN a : \E start \in {YearStart(q - 4), q - 4 - 1} : a[i] = It(q - 4, start)
  <2> HIDE DEF a
  <2>1. a = QuarterlyFacts(q, t, q - 4)
    BY DEF a
  <2> QED
    BY <1>3, <2>1, QuarterlyLists
<1>5. /\ 1 \in DOMAIN b /\ DOMAIN b \subseteq Nat /\ b[1] = It(q, StartFor(q))
      /\ \A i \in DOMAIN b : \E start \in {YearStart(q), q - 1} : b[i] = It(q, start)
  <2> HIDE DEF b
  <2>1. b = QuarterlyFacts(q, t, q)
    BY DEF b
  <2> QED
    BY <1>3, <2>1, QuarterlyLists
<1>6. s = a \o b
  OBVIOUS
<1> HIDE DEF a, b
<1>7. /\ s \in Seq(Fact) /\ DOMAIN s = 1 .. Len(s) /\ Len(s) \in Nat
      /\ \A i \in DOMAIN a : i \in DOMAIN s /\ s[i] = a[i]
      /\ \A i \in DOMAIN b : i + Len(a) \in DOMAIN s /\ s[i + Len(a)] = b[i]
      /\ \A i \in DOMAIN s : i \in DOMAIN a \/ (i - Len(a) \in DOMAIN b /\ s[i] = b[i - Len(a)]
                                                /\ i > Len(a))
  <2> HIDE DEF Fact
  <2>1. Len(s) \in Nat
    BY <1>2, <1>6
  <2>2. /\ s \in Seq(Fact) /\ Len(s) = Len(a) + Len(b) /\ DOMAIN s = 1 .. Len(s)
        /\ \A i \in DOMAIN a : i \in DOMAIN s /\ s[i] = a[i]
        /\ \A i \in DOMAIN b : i + Len(a) \in DOMAIN s /\ s[i + Len(a)] = b[i]
        /\ \A i \in DOMAIN s : i \in DOMAIN a \/ (i - Len(a) \in DOMAIN b /\ s[i] = b[i - Len(a)]
                                                  /\ i > Len(a))
    BY <1>2, <1>6, InTwoLists
  <2> QED
    BY <2>1, <2>2
<1>8. Len(a) \in Nat
  BY <1>2
<1> SUFFICES /\ \A end \in {q - 4, q} : \E i \in DOMAIN s : s[i] = It(end, StartFor(end))
             /\ \A i \in DOMAIN s : \E end \in {q - 4, q} : \E start \in {YearStart(end), end - 1} :
                  /\ s[i] = It(end, start)
                  /\ start # StartFor(end) => \E j \in DOMAIN s :
                          j < i /\ s[j] = It(end, StartFor(end))
  BY <1>7 DEF IsTenQ
<1> HIDE DEF It
<1>9. \A end \in {q - 4, q} : \E i \in DOMAIN s : s[i] = It(end, StartFor(end))
  <2>1. 1 \in DOMAIN s /\ s[1] = It(q - 4, StartFor(q - 4))
    BY <1>4, <1>7
  <2>2. 1 + Len(a) \in DOMAIN s /\ s[1 + Len(a)] = It(q, StartFor(q))
    BY <1>5, <1>7
  <2> QED
    BY <2>1, <2>2
<1>10. StartFor(q - 4) \in {YearStart(q - 4), q - 4 - 1} /\ StartFor(q) \in {YearStart(q), q - 1}
  BY DEF StartFor
<1>11. ASSUME NEW i \in DOMAIN s, i \in DOMAIN a
       PROVE  \E start \in {YearStart(q - 4), q - 4 - 1} :
                /\ s[i] = It(q - 4, start)
                /\ start # StartFor(q - 4) => \E j \in DOMAIN s :
                        j < i /\ s[j] = It(q - 4, StartFor(q - 4))
  <2>1. CASE i = 1
    BY <1>4, <1>7, <1>10, <1>11, <2>1
  <2>2. CASE i # 1
    <3>1. 1 \in DOMAIN s /\ 1 < i /\ s[1] = a[1]
      BY <1>4, <1>7, <2>2
    <3> QED
      BY <1>4, <1>7, <1>11, <3>1
  <2> QED
    BY <2>1, <2>2
<1>12. ASSUME NEW i \in DOMAIN s, i - Len(a) \in DOMAIN b, s[i] = b[i - Len(a)], i > Len(a)
       PROVE  \E start \in {YearStart(q), q - 1} :
                /\ s[i] = It(q, start)
                /\ start # StartFor(q) => \E j \in DOMAIN s :
                        j < i /\ s[j] = It(q, StartFor(q))
  <2>1. CASE i - Len(a) = 1
    BY <1>5, <1>10, <1>12, <2>1
  <2>2. CASE i - Len(a) # 1
    <3>1. 1 + Len(a) \in DOMAIN s /\ s[1 + Len(a)] = b[1]
      BY <1>5, <1>7
    <3>2. 1 + Len(a) < i
      BY <1>5, <1>7, <1>8, <1>12, <2>2
    <3> QED
      BY <1>5, <1>12, <3>1, <3>2
  <2> QED
    BY <2>1, <2>2
<1>13. \A i \in DOMAIN s : \E end \in {q - 4, q} : \E start \in {YearStart(end), end - 1} :
                  /\ s[i] = It(end, start)
                  /\ start # StartFor(end) => \E j \in DOMAIN s :
                          j < i /\ s[j] = It(end, StartFor(end))
  BY <1>7, <1>11, <1>12
<1> QED
  BY <1>9, <1>13

\* A 10-K lists the figures of its year and of the year before, at least.
LEMMA TenKLists ==
    ASSUME FactsTypeOK, NEW q \in 5 .. LastQuarter, IsYearEnd(q), NEW form \in AnnualForms,
           NEW t \in Tags, NEW s, s = AnnualFacts(q, form, t)
    PROVE  /\ s \in Seq(Fact)
           /\ \A end \in {q - 4, q} : \E i \in DOMAIN s : s[i] = FactOf(q, form, t, end, YearStart(end))
           /\ \A i \in DOMAIN s : \E end \in 1 .. q :
                IsYearEnd(end) /\ s[i] = FactOf(q, form, t, end, YearStart(end))
<1> DEFINE years == IF q > 8 THEN 3 ELSE q \div 4
           end(i) == q - 4 * (years - i)
<1>1. /\ years \in 2 .. 3
      /\ \A i \in 1 .. years : end(i) \in 1 .. q /\ IsYearEnd(end(i))
      /\ end(years) = q /\ end(years - 1) = q - 4
  BY DEF IsYearEnd
<1>2. s = [i \in 1 .. years |-> FactOf(q, form, t, end(i), YearStart(end(i)))]
  BY DEF AnnualFacts
<1>3. s \in Seq(Fact)
  BY AnnualType
<1> HIDE DEF years, end
<1>4. /\ years \in 1 .. years /\ years - 1 \in 1 .. years
      /\ s[years] = FactOf(q, form, t, q, YearStart(q))
      /\ s[years - 1] = FactOf(q, form, t, q - 4, YearStart(q - 4))
  BY <1>1, <1>2
<1> QED
  BY <1>1, <1>2, <1>3, <1>4

\* Quarters a year apart, and the one after.
LEMMA YearsApart ==
    ASSUME NEW q \in Nat \ {0}
    PROVE  /\ IsYearEnd(q + 4) <=> IsYearEnd(q)
           /\ YearStart(q + 4) = YearStart(q) + 4
           /\ IsYearEnd(q) => ~IsYearEnd(q + 1) /\ YearStart(q) = q - 4 /\ YearStart(q + 1) = q
           /\ ~IsYearEnd(q) => YearStart(q + 1) = YearStart(q)
BY DEF IsYearEnd, YearStart, Year

\* What of the facts at hand may have changed when some are added.
LEMMA OldFactsSound ==
    ASSUME FactsTypeOK, FactsSound, NEW i \in DOMAIN facts, facts'[i] = facts[i],
           filings <= filings', filings' \in Nat, quarter <= quarter', quarter' \in Nat,
           first' = first, restated \subseteq restated'
    PROVE  FactSound(facts[i])'
<1>1. FactSound(facts[i]) /\ facts[i] \in Fact
  BY DEF FactsTypeOK, FactsSound
<1>2. /\ facts[i].end \in 1 .. LastQuarter /\ facts[i].start \in 0 .. LastQuarter
      /\ facts[i].filed \in Nat /\ facts[i].fiscalYear \in Nat
  BY <1>1 DEF Fact
<1>3. facts[i].start < facts[i].end
  BY <1>1 DEF FactSound
<1>4. FiledFor(facts[i])' = FiledFor(facts[i])
  BY DEF FiledFor, Year
<1>5. FiledFor(facts[i]) \in Int
  BY <1>1, <1>2, YearStarts DEF FiledFor
<1>6. ASSUME \A q \in facts[i].start + 1 .. facts[i].end : q \notin restated'
      PROVE  facts[i].value = Total(facts[i].start, facts[i].end)'
  <2>1. facts[i].value = Total(facts[i].start, facts[i].end)
    BY <1>1, <1>6 DEF FactSound
  <2> DEFINE a == facts[i].start
             b == facts[i].end
  <2>2. a \in 0 .. LastQuarter /\ b \in a .. LastQuarter
    BY <1>2, <1>3
  <2>3. \A q \in a + 1 .. b : q \notin restated'
    BY <1>6
  <2>4. SoFar'[b] - SoFar'[a] = SoFar[b] - SoFar[a]
    <3> HIDE DEF a, b
    <3> QED
      BY <2>2, <2>3, TotalStays
  <2> QED
    BY <2>1, <2>4 DEF Total
<1>7. filings \in Nat /\ quarter \in Nat /\ first \in Nat
  BY DEF FactsTypeOK
<1> QED
  BY <1>1, <1>2, <1>4, <1>5, <1>6, <1>7 DEF FactSound

LEMMA NewFactSound ==
    ASSUME FactsTypeOK, NEW q \in 5 .. LastQuarter, NEW form, NEW t,
           NEW end \in 1 .. LastQuarter, NEW start \in 0 .. LastQuarter,
           NEW i, facts'[i] = FactOf(q, form, t, end, start),
           filings' = filings + 1, first' = first, restated' = restated,
           quarter' \in Nat, end < quarter', q < quarter', first <= q,
           YearStart(end) <= start, start < end,
           form = "10-Q" => ~IsYearEnd(q) /\ end \in {q - 4, q},
           form # "10-Q" => IsYearEnd(end) /\ start = YearStart(end)
    PROVE  FactSound(facts[i])'
<1> DEFINE f == facts'[i]
<1>1. /\ f.end = end /\ f.start = start /\ f.filed = filings + 1 /\ f.form = form
      /\ f.fiscalYear = Year(q) /\ f.value = Total(start, end)
  BY DEF FactOf
<1>2. end \in Nat \ {0} /\ q \in Nat \ {0} /\ q - 4 \in Nat \ {0}
  OBVIOUS
<1>3. ASSUME form = "10-Q" PROVE ~IsYearEnd(end) /\ end + 4 * (Year(q) - Year(end)) = q
  <2>1. CASE end = q
    <3>1. Year(q) \in Nat
      BY <1>2, QuarterYear
    <3> QED
      BY <1>3, <2>1, <3>1
  <2>2. CASE end = q - 4
    <3>1. Year(q - 4) \in Nat /\ Year(q - 4 + 4) = Year(q - 4) + 1
      BY <1>2, QuarterYear
    <3>2. IsYearEnd(q - 4 + 4) <=> IsYearEnd(q - 4)
      BY <1>2, YearsApart
    <3>3. q - 4 + 4 = q
      OBVIOUS
    <3> QED
      BY <1>3, <2>2, <3>1, <3>2, <3>3
  <2> QED
    BY <1>3, <2>1, <2>2
<1>4. ASSUME \A p \in start + 1 .. end : p \notin restated' PROVE f.value = Total(start, end)'
  <2>1. end \in start .. LastQuarter
    BY <1>2
  <2>2. SoFar'[end] - SoFar'[start] = SoFar[end] - SoFar[start]
    BY <1>4, <2>1, TotalStays
  <2> QED
    BY <1>1, <2>2 DEF Total
<1>5. FiledFor(facts[i])' = end + 4 * (Year(q) - Year(end))
  BY <1>1 DEF FiledFor, Year
<1>6. filings \in Nat /\ first \in Nat
  BY DEF FactsTypeOK
<1> HIDE DEF f
<1>7. /\ f.filed <= filings' /\ f.end < quarter' /\ YearStart(f.end) <= f.start /\ f.start < f.end
  BY <1>1, <1>6
<1>8. f.form = "10-Q" =>
        /\ ~IsYearEnd(f.end)
        /\ FiledFor(facts[i])' \in {f.end, f.end + 4}
        /\ first' <= FiledFor(facts[i])' /\ FiledFor(facts[i])' < quarter'
  BY <1>1, <1>3, <1>5
<1>9. f.form # "10-Q" => IsYearEnd(f.end) /\ f.start = YearStart(f.end)
  BY <1>1
<1>10. (\A p \in f.start + 1 .. f.end : p \notin restated')
           => f.value = SoFar'[f.end] - SoFar'[f.start]
  BY <1>1, <1>4 DEF Total
<1> QED
  BY <1>7, <1>8, <1>9, <1>10 DEF FactSound, f, Total

\* The quarter whose 10-Q a fact is from is of its fiscal year.
LEMMA FiledIn ==
    ASSUME FactsTypeOK, FactsSound, NEW i \in DOMAIN facts, facts[i].form = "10-Q"
    PROVE  /\ facts[i].fiscalYear = Year(FiledFor(facts[i]))
           /\ FiledFor(facts[i]) \in first .. quarter - 1
<1> DEFINE f == facts[i]
           e == facts[i].end
<1>1. f \in Fact /\ FactSound(f)
  BY DEF FactsTypeOK, FactsSound
<1>2. e \in Nat \ {0} /\ f.fiscalYear \in Nat
  BY <1>1 DEF Fact
<1>3. Year(e) \in Nat /\ Year(e + 4) = Year(e) + 1
  BY <1>2, QuarterYear
<1>4. FiledFor(f) \in {e, e + 4} /\ first <= FiledFor(f) /\ FiledFor(f) < quarter
  BY <1>1 DEF FactSound
<1>5. FiledFor(f) = e + 4 * (f.fiscalYear - Year(e))
  BY DEF FiledFor
<1>6. first \in Nat /\ quarter \in Nat
  BY DEF FactsTypeOK
<1> HIDE DEF f, e
<1>7. \/ FiledFor(f) = e /\ f.fiscalYear = Year(e)
      \/ FiledFor(f) = e + 4 /\ f.fiscalYear = Year(e) + 1
  BY <1>2, <1>3, <1>4, <1>5
<1>8. f.fiscalYear = Year(FiledFor(f)) /\ FiledFor(f) \in first .. quarter - 1
  BY <1>2, <1>3, <1>4, <1>6, <1>7
<1> QED
  BY <1>8 DEF f

\* A 10-Q keeps the invariant.
LEMMA TenQKeeps == ASSUME FactsIInv, File, ~IsYearEnd(quarter) PROVE FactsIInv'
<1> USE DEF FactsIInv
<1> DEFINE q == quarter
           L == Len(facts)
           s == QuarterlyFacts(q, tag', q - 4) \o QuarterlyFacts(q, tag', q)
<1>1. /\ q \in 5 .. LastQuarter /\ first \in 5 .. q /\ tag' \in Tags /\ filings \in Nat
      /\ facts \in Seq(Fact) /\ L \in Nat
  BY DEF File, FactsTypeOK
<1>2. /\ facts' = facts \o s /\ filings' = filings + 1 /\ quarter' = q + 1
      /\ first' = first /\ style' = style /\ restated' = restated
      /\ tag' # tag => IsYearEnd(q - 1)
  BY DEF File
<1>3. FactsTypeOK'
  <2>1. FactsNext
    BY DEF FactsNext
  <2> QED
    BY <2>1, FactsStepType
<1>4. s \in Seq(Fact) /\ IsTenQ(s, q, tag')
  <2> HIDE DEF s
  <2>1. s = QuarterlyFacts(q, tag', q - 4) \o QuarterlyFacts(q, tag', q)
    BY DEF s
  <2> HIDE DEF q, Fact
  <2> QED
    BY <1>1, <2>1, TenQLists
<1> HIDE DEF s
<1>5. /\ DOMAIN facts' = 1 .. Len(facts')
      /\ \A i \in DOMAIN facts : i \in DOMAIN facts' /\ facts'[i] = facts[i]
      /\ \A i \in DOMAIN s : i + L \in DOMAIN facts' /\ facts'[i + L] = s[i]
      /\ \A i \in DOMAIN facts' : i \in DOMAIN facts \/ (i - L \in DOMAIN s /\ facts'[i] = s[i - L]
                                                        /\ i > L)
  <2> HIDE DEF Fact
  <2> QED
    BY <1>1, <1>2, <1>4, InTwoLists
<1> HIDE DEF L
<1>6. DOMAIN s \subseteq Nat /\ DOMAIN facts \subseteq Nat /\ DOMAIN facts' \subseteq Nat
  <2> HIDE DEF Fact
  <2>1. facts' \in Seq(Fact)
    BY <1>3 DEF FactsTypeOK
  <2> QED
    BY <1>1, <1>4, <2>1
<1>7. ASSUME NEW i \in DOMAIN facts', i \notin DOMAIN facts
      PROVE  \E end \in {q - 4, q} : \E start \in {YearStart(end), end - 1} :
               /\ facts'[i] = FactOf(q, "10-Q", tag', end, start)
               /\ start # StartFor(end) => \E j \in DOMAIN facts' :
                       j < i /\ facts'[j] = FactOf(q, "10-Q", tag', end, StartFor(end))
  <2>1. i - L \in DOMAIN s /\ facts'[i] = s[i - L]
    BY <1>5, <1>7
  <2>2. PICK end \in {q - 4, q} : \E start \in {YearStart(end), end - 1} :
           /\ s[i - L] = FactOf(q, "10-Q", tag', end, start)
           /\ start # StartFor(end) => \E j \in DOMAIN s :
                   j < i - L /\ s[j] = FactOf(q, "10-Q", tag', end, StartFor(end))
    BY <1>4, <2>1 DEF IsTenQ
  <2>3. PICK start \in {YearStart(end), end - 1} :
           /\ s[i - L] = FactOf(q, "10-Q", tag', end, start)
           /\ start # StartFor(end) => \E j \in DOMAIN s :
                   j < i - L /\ s[j] = FactOf(q, "10-Q", tag', end, StartFor(end))
    BY <2>2
  <2>4. ASSUME start # StartFor(end)
        PROVE  \E j \in DOMAIN facts' :
                 j < i /\ facts'[j] = FactOf(q, "10-Q", tag', end, StartFor(end))
    <3>1. PICK j \in DOMAIN s : j < i - L /\ s[j] = FactOf(q, "10-Q", tag', end, StartFor(end))
      BY <2>3, <2>4
    <3>2. j + L \in DOMAIN facts' /\ facts'[j + L] = s[j]
      BY <1>5
    <3>3. j + L < i
      BY <1>1, <1>6, <3>1 DEF L
    <3> QED
      BY <3>1, <3>2, <3>3
  <2> QED
    BY <2>1, <2>3, <2>4
<1>8. ASSUME NEW i \in DOMAIN facts', i \notin DOMAIN facts
      PROVE  /\ facts'[i].fiscalYear = Year(q) /\ facts'[i].filed = filings + 1
             /\ facts'[i].tag = tag'
  BY <1>7, <1>8 DEF FactOf
<1>9. q \in Nat \ {0} /\ q - 1 \in Nat \ {0} /\ q - 4 \in Nat \ {0}
  BY <1>1
<1>10. FactsSound'
  <2> SUFFICES ASSUME NEW i \in DOMAIN facts' PROVE FactSound(facts[i])'
    BY DEF FactsSound
  <2>1. quarter' \in Nat /\ quarter <= quarter' /\ filings <= filings' /\ filings' \in Nat
    BY <1>1, <1>2
  <2>2. CASE i \in DOMAIN facts
    BY <1>2, <1>5, <2>1, <2>2, OldFactsSound
  <2>3. CASE i \notin DOMAIN facts
    <3>0. PICK end \in {q - 4, q} : \E start \in {YearStart(end), end - 1} :
            facts'[i] = FactOf(q, "10-Q", tag', end, start)
      BY <1>7, <2>3
    <3>1. PICK start \in {YearStart(end), end - 1} : facts'[i] = FactOf(q, "10-Q", tag', end, start)
      BY <3>0
    <3>2. end \in 1 .. LastQuarter /\ end <= q /\ end \in Nat \ {0}
      BY <1>1
    <3>3. YearStart(end) \in Nat /\ YearStart(end) < end
      BY <3>2, QuarterYear
    <3>4. start \in 0 .. LastQuarter /\ YearStart(end) <= start /\ start < end
      BY <3>2, <3>3
    <3>5. q < quarter' /\ end < quarter' /\ first <= q
      BY <1>1, <1>2, <3>2
    <3>6. ~IsYearEnd(q)
      OBVIOUS
    <3> HIDE DEF q
    <3> QED
      BY <1>1, <1>2, <2>1, <3>1, <3>2, <3>4, <3>5, <3>6, NewFactSound
  <2> QED
    BY <2>2, <2>3
<1>11. ASSUME NEW i \in DOMAIN facts, facts[i].form = "10-Q"
       PROVE  /\ facts[i].fiscalYear \in Nat /\ facts[i].fiscalYear <= Year(q)
              /\ facts[i].filed \in Nat /\ facts[i].filed <= filings
              /\ facts[i].fiscalYear = Year(q) => facts[i].tag = tag'
  <2>1. facts[i] \in Fact /\ FactSound(facts[i])
    BY DEF FactsTypeOK, FactsSound
  <2>2. /\ facts[i].fiscalYear \in Nat
        /\ facts[i].filed \in Nat /\ facts[i].filed <= filings
    BY <2>1 DEF Fact, FactSound
  <2> DEFINE p == FiledFor(facts[i])
  <2>3. facts[i].fiscalYear = Year(p) /\ p \in first .. q - 1
    BY <1>11, FiledIn
  <2> HIDE DEF p
  <2>4. p \in Nat \ {0} /\ p <= q /\ p <= q - 1
    BY <1>1, <2>3
  <2>5. Year(p) <= Year(q) /\ Year(p) <= Year(q - 1)
    BY <1>9, <2>4, YearsGrow
  <2>6. CASE tag' = tag
    BY <1>11, <2>2, <2>3, <2>5, <2>6 DEF YearsInOrder
  <2>7. CASE tag' # tag
    <3>1. IsYearEnd(q - 1)
      BY <1>2, <2>7
    <3>2. Year(q - 1) \in Nat /\ Year(q - 1 + 1) = Year(q - 1) + 1
      BY <1>9, <3>1, QuarterYear
    <3>3. q - 1 + 1 = q
      BY <1>1
    <3> QED
      BY <2>2, <2>3, <2>5, <3>2, <3>3
  <2> QED
    BY <2>6, <2>7
<1>12. Year(q + 1) = Year(q) /\ Year(q) \in Nat
  BY <1>9, QuarterYear
<1>13. YearsInOrder'
  <2> SUFFICES ASSUME NEW i \in DOMAIN facts', NEW j \in DOMAIN facts',
                      facts'[i].form = "10-Q", facts'[j].form = "10-Q"
               PROVE  /\ facts'[i].fiscalYear = facts'[j].fiscalYear => facts'[i].tag = facts'[j].tag
                      /\ facts'[i].fiscalYear < facts'[j].fiscalYear
                            => facts'[i].filed < facts'[j].filed
                      /\ facts'[i].fiscalYear = Year(q + 1) => facts'[i].tag = tag'
    BY <1>2 DEF YearsInOrder
  <2>1. CASE i \in DOMAIN facts /\ j \in DOMAIN facts
    <3>1. facts'[i] = facts[i] /\ facts'[j] = facts[j]
      BY <1>5, <2>1
    <3> QED
      BY <1>11, <1>12, <2>1, <3>1 DEF YearsInOrder
  <2>2. CASE i \in DOMAIN facts /\ j \notin DOMAIN facts
    <3>1. facts'[i] = facts[i]
      BY <1>5, <2>2
    <3> QED
      BY <1>1, <1>8, <1>11, <1>12, <2>2, <3>1
  <2>3. CASE i \notin DOMAIN facts /\ j \in DOMAIN facts
    <3>1. facts'[j] = facts[j]
      BY <1>5, <2>3
    <3> QED
      BY <1>1, <1>8, <1>11, <1>12, <2>3, <3>1
  <2>4. CASE i \notin DOMAIN facts /\ j \notin DOMAIN facts
    BY <1>1, <1>8, <1>12, <2>4
  <2> QED
    BY <2>1, <2>2, <2>3, <2>4
<1>14. \A end : StartFor(end)' = StartFor(end)
  BY <1>2 DEF StartFor, YearStart, Year
<1>15. FirstListed'
  <2> SUFFICES ASSUME NEW i \in DOMAIN facts', facts'[i].form = "10-Q",
                      facts'[i].start # StartFor(facts[i].end)'
               PROVE  \E j \in DOMAIN facts' :
                        /\ j < i /\ facts'[j].start = StartFor(facts[i].end)'
                        /\ facts'[j].form = "10-Q" /\ facts'[j].end = facts'[i].end
                        /\ facts'[j].filed = facts'[i].filed /\ facts'[j].tag = facts'[i].tag
    BY DEF FirstListed
  <2>1. CASE i \in DOMAIN facts
    <3>1. facts'[i] = facts[i]
      BY <1>5, <2>1
    <3>2. facts[i].start # StartFor(facts[i].end) /\ StartFor(facts[i].end)' = StartFor(facts[i].end)
      BY <1>2, <3>1 DEF StartFor
    <3>3. PICK j \in DOMAIN facts :
            /\ j < i /\ facts[j].start = StartFor(facts[i].end)
            /\ facts[j].form = "10-Q" /\ facts[j].end = facts[i].end
            /\ facts[j].filed = facts[i].filed /\ facts[j].tag = facts[i].tag
      BY <2>1, <3>1, <3>2 DEF FirstListed
    <3>4. j \in DOMAIN facts' /\ facts'[j] = facts[j]
      BY <1>5
    <3> QED
      BY <3>1, <3>2, <3>3, <3>4
  <2>2. CASE i \notin DOMAIN facts
    <3>0. PICK end \in {q - 4, q} : \E start \in {YearStart(end), end - 1} :
           /\ facts'[i] = FactOf(q, "10-Q", tag', end, start)
           /\ start # StartFor(end) => \E j \in DOMAIN facts' :
                   j < i /\ facts'[j] = FactOf(q, "10-Q", tag', end, StartFor(end))
      BY <1>7, <2>2
    <3>1. PICK start \in {YearStart(end), end - 1} :
           /\ facts'[i] = FactOf(q, "10-Q", tag', end, start)
           /\ start # StartFor(end) => \E j \in DOMAIN facts' :
                   j < i /\ facts'[j] = FactOf(q, "10-Q", tag', end, StartFor(end))
      BY <3>0
    <3>2. facts'[i].end = end /\ facts'[i].start = start
      BY <3>1 DEF FactOf
    <3>3. StartFor(facts[i].end)' = StartFor(end)
      BY <1>2, <3>2 DEF StartFor
    <3>4. PICK j \in DOMAIN facts' :
            j < i /\ facts'[j] = FactOf(q, "10-Q", tag', end, StartFor(end))
      BY <3>1, <3>2, <3>3
    <3> QED
      BY <3>1, <3>3, <3>4 DEF FactOf
  <2> QED
    BY <2>1, <2>2
<1>16. AllFiled'
  <2> SUFFICES ASSUME NEW p \in first .. q, NEW end \in {p, p - 4}
               PROVE  \E i \in DOMAIN facts' :
                        /\ facts'[i].end = end
                        /\ IF IsYearEnd(p) THEN facts'[i].form # "10-Q"
                           ELSE facts'[i].form = "10-Q" /\ facts'[i].fiscalYear = Year(p)
    <3>1. first' .. quarter' - 1 = first .. q
      BY <1>1, <1>2
    <3> QED
      BY <3>1 DEF AllFiled
  <2>1. CASE p < q
    <3>1. p \in first .. quarter - 1
      BY <1>1, <2>1
    <3>2. PICK i \in DOMAIN facts :
            /\ facts[i].end = end
            /\ IF IsYearEnd(p) THEN facts[i].form # "10-Q"
               ELSE facts[i].form = "10-Q" /\ facts[i].fiscalYear = Year(p)
      BY <3>1 DEF AllFiled
    <3> QED
      BY <1>5, <3>2
  <2>2. CASE p = q
    <3>1. PICK i \in DOMAIN s : s[i] = FactOf(q, "10-Q", tag', end, StartFor(end))
      BY <1>4, <2>2 DEF IsTenQ
    <3>2. /\ i + L \in DOMAIN facts' /\ facts'[i + L] = s[i]
          /\ s[i].end = end /\ s[i].form = "10-Q" /\ s[i].fiscalYear = Year(q)
      BY <1>5, <3>1 DEF FactOf
    <3> QED
      BY <2>2, <3>2
  <2> QED
    BY <1>1, <2>1, <2>2
<1> QED
  BY <1>3, <1>10, <1>13, <1>15, <1>16

\* So does a 10-K or an amended one.
LEMMA TenKKeeps ==
    ASSUME FactsIInv, FactsTypeOK', NEW q \in first .. quarter, q <= LastQuarter, IsYearEnd(q),
           NEW form \in AnnualForms, facts' = facts \o AnnualFacts(q, form, tag),
           filings' = filings + 1, first' = first, style' = style, restated' = restated, tag' = tag,
           quarter' = IF q = quarter THEN quarter + 1 ELSE quarter
    PROVE  FactsIInv'
<1> USE DEF FactsIInv
<1> DEFINE L == Len(facts)
           s == AnnualFacts(q, form, tag)
<1>1. /\ q \in 5 .. LastQuarter /\ first \in 5 .. LastQuarter /\ quarter \in Nat /\ first \in Nat
      /\ tag \in Tags /\ filings \in Nat
      /\ facts \in Seq(Fact) /\ L \in Nat /\ form # "10-Q"
  BY DEF FactsTypeOK, AnnualForms
<1>2. /\ s \in Seq(Fact)
      /\ \A end \in {q - 4, q} : \E i \in DOMAIN s : s[i] = FactOf(q, form, tag, end, YearStart(end))
      /\ \A i \in DOMAIN s : \E end \in 1 .. q :
           IsYearEnd(end) /\ s[i] = FactOf(q, form, tag, end, YearStart(end))
  <2> HIDE DEF s
  <2>1. s = AnnualFacts(q, form, tag)
    BY DEF s
  <2> HIDE DEF Fact
  <2> QED
    BY <1>1, <2>1, TenKLists
<1>3. facts' = facts \o s
  OBVIOUS
<1> HIDE DEF s
<1>4. /\ DOMAIN facts' = 1 .. Len(facts')
      /\ \A i \in DOMAIN facts : i \in DOMAIN facts' /\ facts'[i] = facts[i]
      /\ \A i \in DOMAIN s : i + L \in DOMAIN facts' /\ facts'[i + L] = s[i]
      /\ \A i \in DOMAIN facts' : i \in DOMAIN facts \/ (i - L \in DOMAIN s /\ facts'[i] = s[i - L]
                                                        /\ i > L)
  <2>1. s \in Seq(Fact) /\ facts \in Seq(Fact)
    BY <1>1, <1>2
  <2> HIDE DEF Fact
  <2> QED
    BY <1>3, <2>1, InTwoLists DEF L
<1> HIDE DEF L
<1>5. ASSUME NEW i \in DOMAIN facts', i \notin DOMAIN facts
      PROVE  \E end \in 1 .. q :
               IsYearEnd(end) /\ facts'[i] = FactOf(q, form, tag, end, YearStart(end))
  BY <1>2, <1>4, <1>5
<1>6. \A i \in DOMAIN facts' : facts'[i].form = "10-Q" => i \in DOMAIN facts /\ facts'[i] = facts[i]
  <2>1. ASSUME NEW i \in DOMAIN facts', i \notin DOMAIN facts PROVE facts'[i].form = form
    <3>1. PICK end \in 1 .. q : facts'[i] = FactOf(q, form, tag, end, YearStart(end))
      BY <1>5, <2>1
    <3> QED
      BY <3>1 DEF FactOf
  <2> QED
    BY <1>1, <1>4, <2>1
<1>7. quarter <= quarter' /\ quarter' \in Nat /\ q < quarter'
  BY <1>1
<1>8. FactsSound'
  <2> SUFFICES ASSUME NEW i \in DOMAIN facts' PROVE FactSound(facts[i])'
    BY DEF FactsSound
  <2>1. filings <= filings' /\ filings' \in Nat
    BY <1>1
  <2>2. CASE i \in DOMAIN facts
    BY <1>4, <1>7, <2>1, <2>2, OldFactsSound
  <2>3. CASE i \notin DOMAIN facts
    <3>1. PICK end \in 1 .. q : IsYearEnd(end) /\ facts'[i] = FactOf(q, form, tag, end, YearStart(end))
      BY <1>5, <2>3
    <3>2. end \in 1 .. LastQuarter /\ end \in Nat \ {0} /\ end < quarter'
      BY <1>1, <1>7
    <3>3. YearStart(end) \in 0 .. LastQuarter /\ YearStart(end) < end /\ YearStart(end) <= YearStart(end)
      <4>1. YearStart(end) \in 0 .. LastQuarter /\ YearStart(end) < end
        BY <3>2, QuarterYear, YearStarts
      <4> QED
        BY <4>1
    <3> QED
      BY <1>1, <1>7, <3>1, <3>2, <3>3, NewFactSound
  <2> QED
    BY <2>2, <2>3
<1>9. ASSUME NEW i \in DOMAIN facts, facts[i].form = "10-Q", facts[i].fiscalYear = Year(quarter')
      PROVE  facts[i].tag = tag
  <2>1. CASE q = quarter
    <3> DEFINE p == FiledFor(facts[i])
    <3>1. facts[i].fiscalYear = Year(p) /\ p \in first .. quarter - 1
      BY <1>9, FiledIn
    <3> HIDE DEF p
    <3>2. p \in Nat \ {0} /\ quarter \in Nat \ {0} /\ p <= quarter
      BY <1>1, <3>1
    <3>3. Year(p) <= Year(quarter) /\ Year(p) \in Nat /\ Year(quarter) \in Nat
      BY <3>2, YearsGrow, QuarterYear
    <3>4. Year(quarter + 1) = Year(quarter) + 1
      BY <2>1, <3>2, QuarterYear
    <3> QED
      BY <1>9, <2>1, <3>1, <3>3, <3>4
  <2>2. CASE q # quarter
    BY <1>9, <2>2 DEF YearsInOrder
  <2> QED
    BY <2>1, <2>2
<1>10. YearsInOrder'
  BY <1>6, <1>9 DEF YearsInOrder
<1>11. FirstListed'
  <2> SUFFICES ASSUME NEW i \in DOMAIN facts', facts'[i].form = "10-Q",
                      facts'[i].start # StartFor(facts[i].end)'
               PROVE  \E j \in DOMAIN facts' :
                        /\ j < i /\ facts'[j].start = StartFor(facts[i].end)'
                        /\ facts'[j].form = "10-Q" /\ facts'[j].end = facts'[i].end
                        /\ facts'[j].filed = facts'[i].filed /\ facts'[j].tag = facts'[i].tag
    BY DEF FirstListed
  <2>1. i \in DOMAIN facts /\ facts'[i] = facts[i]
    BY <1>6
  <2>2. facts[i].start # StartFor(facts[i].end) /\ StartFor(facts[i].end)' = StartFor(facts[i].end)
    BY <2>1 DEF StartFor
  <2>3. PICK j \in DOMAIN facts :
          /\ j < i /\ facts[j].start = StartFor(facts[i].end)
          /\ facts[j].form = "10-Q" /\ facts[j].end = facts[i].end
          /\ facts[j].filed = facts[i].filed /\ facts[j].tag = facts[i].tag
    BY <2>1, <2>2 DEF FirstListed
  <2>4. j \in DOMAIN facts' /\ facts'[j] = facts[j]
    BY <1>4
  <2> QED
    BY <2>1, <2>2, <2>3, <2>4
<1>12. AllFiled'
  <2> SUFFICES ASSUME NEW p \in first .. quarter' - 1, NEW end \in {p, p - 4}
               PROVE  \E i \in DOMAIN facts' :
                        /\ facts'[i].end = end
                        /\ IF IsYearEnd(p) THEN facts'[i].form # "10-Q"
                           ELSE facts'[i].form = "10-Q" /\ facts'[i].fiscalYear = Year(p)
    BY DEF AllFiled
  <2>1. CASE p <= quarter - 1
    <3>1. p \in first .. quarter - 1
      BY <1>1, <2>1
    <3>2. PICK i \in DOMAIN facts :
            /\ facts[i].end = end
            /\ IF IsYearEnd(p) THEN facts[i].form # "10-Q"
               ELSE facts[i].form = "10-Q" /\ facts[i].fiscalYear = Year(p)
      BY <3>1 DEF AllFiled
    <3> QED
      BY <1>4, <3>2
  <2>2. CASE ~(p <= quarter - 1)
    <3>0. p = q
      BY <1>1, <2>2
    <3>1. PICK i \in DOMAIN s : s[i] = FactOf(q, form, tag, end, YearStart(end))
      BY <1>2, <3>0
    <3>2. /\ i + L \in DOMAIN facts' /\ facts'[i + L] = s[i]
          /\ s[i].end = end /\ s[i].form # "10-Q"
      BY <1>1, <1>4, <3>1 DEF FactOf
    <3> QED
      BY <3>0, <3>2
  <2> QED
    BY <1>1, <2>1, <2>2
<1> QED
  BY <1>8, <1>10, <1>11, <1>12

\* A company that has filed nothing yet has it.
LEMMA FactsInitIInv == FactsInit => FactsIInv
<1> SUFFICES ASSUME FactsInit PROVE FactsIInv
  OBVIOUS
<1>1. FactsTypeOK
  BY FactsInitType
<1>2. DOMAIN facts = {} /\ first .. quarter - 1 = {}
  BY <1>1 DEF FactsInit, FactsTypeOK
<1> QED
  BY <1>1, <1>2 DEF FactsIInv, FactsSound, YearsInOrder, FirstListed, AllFiled

\* Every step preserves the invariant.
LEMMA FactsStepIInv == FactsIInv /\ [FactsNext]_factsVars => FactsIInv'
<1> SUFFICES ASSUME FactsIInv, [FactsNext]_factsVars PROVE FactsIInv'
  OBVIOUS
<1>1. FactsTypeOK /\ FactsTypeOK'
  BY FactsStepType DEF FactsIInv
<1>2. first \in 5 .. LastQuarter /\ quarter \in first .. LastQuarter + 1 /\ quarter - 1 \in Nat \ {0}
  BY <1>1 DEF FactsTypeOK
<1>3. CASE File
  <2>1. CASE ~IsYearEnd(quarter)
    BY <1>3, <2>1, TenQKeeps
  <2>2. CASE IsYearEnd(quarter)
    <3>1. ~IsYearEnd(quarter - 1)
      <4>1. quarter - 1 + 1 = quarter
        BY <1>2
      <4> QED
        BY <1>2, <2>2, <4>1, YearsApart
    <3>2. /\ quarter <= LastQuarter /\ tag' = tag /\ facts' = facts \o AnnualFacts(quarter, "10-K", tag)
          /\ filings' = filings + 1 /\ first' = first /\ style' = style /\ restated' = restated
          /\ quarter' = IF quarter = quarter THEN quarter + 1 ELSE quarter
      BY <1>3, <2>2, <3>1 DEF File
    <3>3. quarter \in first .. quarter /\ "10-K" \in AnnualForms
      BY <1>2 DEF AnnualForms
    <3> QED
      BY <1>1, <2>2, <3>2, <3>3, TenKKeeps
  <2> QED
    BY <2>1, <2>2
<1>4. ASSUME NEW q \in first .. quarter - 1, IsYearEnd(q), AmendAnnual(q) PROVE FactsIInv'
  <2>1. q \in first .. quarter /\ q <= LastQuarter /\ q # quarter /\ "10-K/A" \in AnnualForms
    BY <1>2 DEF AnnualForms
  <2>2. /\ tag' = tag /\ facts' = facts \o AnnualFacts(q, "10-K/A", tag)
        /\ filings' = filings + 1 /\ first' = first /\ style' = style /\ restated' = restated
        /\ quarter' = IF q = quarter THEN quarter + 1 ELSE quarter
    BY <1>4, <2>1 DEF AmendAnnual
  <2> QED
    BY <1>1, <1>4, <2>1, <2>2, TenKKeeps
<1>5. ASSUME UNCHANGED <<facts, filings, first, quarter, style, tag>>, restated \subseteq restated'
      PROVE  FactsIInv'
  <2>1. FactsSound'
    <3> SUFFICES ASSUME NEW i \in DOMAIN facts' PROVE FactSound(facts[i])'
      BY DEF FactsSound
    <3>1. filings <= filings' /\ filings' \in Nat /\ quarter <= quarter' /\ quarter' \in Nat
      BY <1>1, <1>5 DEF FactsTypeOK
    <3> QED
      BY <1>1, <1>5, <3>1, OldFactsSound DEF FactsIInv
  <2>2. \A end : StartFor(end)' = StartFor(end)
    BY <1>5 DEF StartFor
  <2>3. YearsInOrder' /\ AllFiled'
    BY <1>5 DEF FactsIInv, YearsInOrder, AllFiled
  <2>4. FirstListed'
    BY <1>5 DEF FactsIInv, FirstListed, StartFor
  <2> QED
    BY <1>1, <2>1, <2>3, <2>4 DEF FactsIInv
<1>6. ASSUME NEW q \in first .. quarter - 1, Restate(q) PROVE FactsIInv'
  BY <1>5, <1>6 DEF Restate
<1>7. CASE UNCHANGED factsVars
  BY <1>5, <1>7 DEF factsVars
<1> QED
  BY <1>3, <1>4, <1>6, <1>7 DEF FactsNext

-----------------------------------------------------------------------------
(***************************************************************************)
(* What the code makes of the facts.                                       *)
(***************************************************************************)

\* Every end keeps a fact, and all its facts are under one tag.
LEMMA ConceptIs ==
    ASSUME FactsTypeOK
    PROVE  /\ Concept \subseteq DOMAIN facts
           /\ Ends(Concept) = Ends(DOMAIN facts)
           /\ \A i, j \in Concept : facts[i].end = facts[j].end => facts[i].tag = facts[j].tag
           /\ \A i \in DOMAIN facts : i \in Concept \/
                (facts[i].tag = 2 /\ \A j \in Concept : facts[j].end = facts[i].end => facts[j].tag = 1)
           /\ \A i \in DOMAIN facts : facts[i].tag = 1 => i \in Concept
<1> DEFINE under(t) == {i \in DOMAIN facts : facts[i].tag = t}
<1>1. \A i \in DOMAIN facts : facts[i].tag = 1 \/ facts[i].tag = 2
  <2> SUFFICES ASSUME NEW i \in DOMAIN facts PROVE facts[i].tag \in Tags
    BY DEF Tags
  <2>1. facts[i] \in Fact
    BY DEF FactsTypeOK
  <2> QED
    BY <2>1 DEF Fact
<1>2. Concept = under(1) \cup {i \in under(2) : facts[i].end \notin Ends(under(1))}
  BY DEF Concept
<1>3. \A e : e \in Ends(under(1)) <=> \E i \in DOMAIN facts : facts[i].tag = 1 /\ facts[i].end = e
  BY DEF Ends
<1>4. \A i : i \in Concept <=>
        /\ i \in DOMAIN facts
        /\ \/ facts[i].tag = 1
           \/ facts[i].tag = 2 /\ ~\E j \in DOMAIN facts : facts[j].tag = 1 /\ facts[j].end = facts[i].end
  BY <1>2, <1>3
<1> HIDE DEF under
<1>5. Ends(Concept) = Ends(DOMAIN facts)
  <2>1. ASSUME NEW i \in DOMAIN facts PROVE \E j \in Concept : facts[j].end = facts[i].end
    BY <1>1, <1>4
  <2>2. Concept \subseteq DOMAIN facts
    BY <1>4
  <2> QED
    BY <2>1, <2>2 DEF Ends
<1> QED
  BY <1>1, <1>4, <1>5

\* Of some facts, the latest filed and of those the first is well defined.
LEMMA LatestIs ==
    ASSUME FactsIInv, NEW I \in SUBSET DOMAIN facts, I # {}
    PROVE  \E i \in I : /\ Latest(I) = facts[i]
                        /\ \A j \in I : \/ facts[j].filed < facts[i].filed
                                        \/ facts[j].filed = facts[i].filed /\ i <= j
<1>1. \A i \in DOMAIN facts : i \in Nat /\ facts[i].filed \in Nat
  <2> SUFFICES ASSUME NEW i \in DOMAIN facts PROVE i \in Nat /\ facts[i].filed \in Nat
    OBVIOUS
  <2>1. facts[i] \in Fact /\ i \in Nat
    BY DEF FactsIInv, FactsTypeOK
  <2> QED
    BY <2>1 DEF Fact
<1> DEFINE Above == {n \in Nat : \A i \in I : facts[i].filed <= n}
<1>2. filings \in Above
  BY DEF FactsIInv, FactsTypeOK, FactsSound, FactSound
<1>3. PICK m \in Above : \A n \in Above : m <= n
  <2>1. Above \in SUBSET Nat /\ Above # {}
    BY <1>2
  <2> HIDE DEF Above
  <2> QED
    BY <2>1, LeastNatural
<1>8. \E i \in I : facts[i].filed = m
  <2> SUFFICES ASSUME \A i \in I : facts[i].filed < m PROVE FALSE
    BY <1>1, <1>3
  <2>1. m - 1 \in Nat /\ \A i \in I : facts[i].filed <= m - 1
    BY <1>1, <1>3
  <2>2. m - 1 \in Above
    BY <2>1
  <2> QED
    BY <1>3, <2>2
<1> DEFINE J == {i \in I : facts[i].filed = m}
<1>4. PICK i \in J : \A j \in J : i <= j
  <2>1. J \in SUBSET Nat /\ J # {}
    BY <1>1, <1>8
  <2> HIDE DEF J
  <2> QED
    BY <2>1, LeastNatural
<1> DEFINE P(x) == \A j \in I : \/ facts[j].filed < facts[x].filed
                                \/ facts[j].filed = facts[x].filed /\ x <= j
<1>5. i \in I /\ P(i)
  <2> SUFFICES ASSUME NEW j \in I
               PROVE  facts[j].filed < facts[i].filed \/ (facts[j].filed = facts[i].filed /\ i <= j)
    OBVIOUS
  <2>1. facts[j].filed <= m /\ facts[i].filed = m /\ facts[j].filed \in Nat /\ m \in Nat
    BY <1>1, <1>3, <1>4
  <2>2. facts[j].filed = m => i <= j
    BY <1>4
  <2> QED
    BY <2>1, <2>2
<1>6. Latest(I) = facts[CHOOSE x \in I : P(x)]
  BY DEF Latest
<1> HIDE DEF P
<1>7. (CHOOSE x \in I : P(x)) \in I /\ P(CHOOSE x \in I : P(x))
  BY <1>5
<1> QED
  BY <1>6, <1>7 DEF P

\* The fact the code takes for an end.
Takes(e, i) ==
    /\ i \in Concept /\ facts[i].end = e
    /\ OnePerEnd[e] = facts[i]
    /\ \A j \in Concept : facts[j].end = e =>
            \/ facts[j].filed < facts[i].filed
            \/ facts[j].filed = facts[i].filed /\ i <= j

\* There is one for every end.
LEMMA TakesOne == ASSUME FactsIInv, NEW e \in Ends(Concept) PROVE \E i : Takes(e, i)
<1> DEFINE I == {i \in Concept : facts[i].end = e}
<1>1. I \in SUBSET DOMAIN facts /\ I # {}
  BY ConceptIs DEF FactsIInv, Ends
<1>2. OnePerEnd[e] = Latest(I)
  BY DEF OnePerEnd
<1>3. PICK i \in I : /\ Latest(I) = facts[i]
                     /\ \A j \in I : \/ facts[j].filed < facts[i].filed
                                     \/ facts[j].filed = facts[i].filed /\ i <= j
  <2> HIDE DEF I
  <2> QED
    BY <1>1, LatestIs
<1> QED
  BY <1>2, <1>3 DEF Takes

\* It is of the form the quarter asks for, and has the one start of the filing's
\* first figure.
LEMMA TakenIs ==
    ASSUME FactsIInv, NEW e \in Ends(Concept)
    PROVE  /\ e \in 1 .. LastQuarter /\ e < quarter
           /\ OnePerEnd[e] \in Fact /\ OnePerEnd[e].end = e /\ FactSound(OnePerEnd[e])
           /\ IsYearEnd(e) <=> OnePerEnd[e].form # "10-Q"
           /\ ~IsYearEnd(e) => OnePerEnd[e].start = StartFor(e)
<1>1. FactsTypeOK
  BY DEF FactsIInv
<1>2. PICK i : Takes(e, i)
  BY TakesOne
<1>3. i \in DOMAIN facts
  BY <1>1, <1>2, ConceptIs DEF Takes
<1>4. facts[i] \in Fact /\ FactSound(facts[i]) /\ facts[i].end = e /\ OnePerEnd[e] = facts[i]
  BY <1>1, <1>2, <1>3 DEF FactsTypeOK, FactsIInv, FactsSound, Takes
<1>5. e \in 1 .. LastQuarter /\ e < quarter
  BY <1>4 DEF Fact, FactSound
<1>6. IsYearEnd(e) <=> facts[i].form # "10-Q"
  BY <1>4 DEF FactSound
<1>7. ASSUME ~IsYearEnd(e) PROVE facts[i].start = StartFor(e)
  <2> SUFFICES ASSUME facts[i].start # StartFor(e) PROVE FALSE
    OBVIOUS
  <2>1. PICK j \in DOMAIN facts :
          /\ j < i /\ facts[j].start = StartFor(facts[i].end)
          /\ facts[j].form = "10-Q" /\ facts[j].end = facts[i].end
          /\ facts[j].filed = facts[i].filed /\ facts[j].tag = facts[i].tag
    BY <1>3, <1>4, <1>6, <1>7 DEF FactsIInv, FirstListed
  <2>2. j \in Concept
    <3>1. i \in Concept
      BY <1>2 DEF Takes
    <3> QED
      BY <1>1, <2>1, <3>1, ConceptIs
  <2>3. facts[j].filed < facts[i].filed \/ (facts[j].filed = facts[i].filed /\ i <= j)
    BY <1>2, <1>4, <2>1, <2>2 DEF Takes
  <2>4. i \in Nat /\ j \in Nat /\ facts[i].filed \in Nat
    <3>1. facts \in Seq(Fact)
      BY <1>1 DEF FactsTypeOK
    <3>2. i \in Nat /\ j \in Nat
      <4> HIDE DEF Fact
      <4> QED
        BY <1>3, <2>1, <3>1
    <3> QED
      BY <1>4, <3>2 DEF Fact
  <2> QED
    BY <2>1, <2>3, <2>4
<1> QED
  BY <1>4, <1>5, <1>6, <1>7

\* Of two quarters of a year with the same 10-Qs about them, their own and those of
\* the year after, no one is taken from its own year and the other from the next:
\* the former has a fact of the next year too, which was passed over for its tag,
\* and then the latter has one of its own year under the preferred tag.
LEMMA YearNotLater ==
    ASSUME FactsIInv, NEW d \in Ends(Concept), NEW e \in Ends(Concept),
           ~IsYearEnd(d), ~IsYearEnd(e), Year(d) = Year(e),
           e \in first .. quarter - 1 <=> d \in first .. quarter - 1,
           e + 4 \in first .. quarter - 1 <=> d + 4 \in first .. quarter - 1,
           OnePerEnd[d].fiscalYear = Year(d), OnePerEnd[e].fiscalYear = Year(d) + 1
    PROVE  FALSE
<1>1. FactsTypeOK /\ FactsSound /\ YearsInOrder /\ AllFiled
  BY DEF FactsIInv
<1>2. PICK i : Takes(d, i)
  BY TakesOne
<1>3. PICK k : Takes(e, k)
  BY TakesOne
<1>4. /\ i \in DOMAIN facts /\ facts[i].end = d /\ facts[i].form = "10-Q" /\ facts[i].fiscalYear = Year(d)
      /\ k \in DOMAIN facts /\ facts[k].end = e /\ facts[k].form = "10-Q" /\ facts[k].fiscalYear = Year(d) + 1
      /\ i \in Concept /\ k \in Concept /\ d \in 1 .. LastQuarter /\ e \in 1 .. LastQuarter
  BY <1>1, <1>2, <1>3, ConceptIs, TakenIs DEF Takes
<1>5. d \in first .. quarter - 1 /\ e + 4 \in first .. quarter - 1
  <2>1. FiledFor(facts[i]) = d /\ FiledFor(facts[k]) = e + 4
    <3>1. Year(d) \in Nat /\ d \in Nat /\ e \in Nat
      <4>1. d \in Nat \ {0} /\ e \in Nat \ {0}
        BY <1>4
      <4> QED
        BY <4>1, QuarterYear
    <3> QED
      BY <1>4, <3>1 DEF FiledFor
  <2> QED
    BY <1>1, <1>4, <2>1, FiledIn
<1>6. ~IsYearEnd(d + 4) /\ Year(d + 4) = Year(d) + 1
  <2>1. d \in Nat \ {0}
    BY <1>4
  <2>2. Year(d + 4) = Year(d) + 1
    BY <2>1, QuarterYear
  <2>3. IsYearEnd(d + 4) <=> IsYearEnd(d)
    BY <2>1, YearsApart
  <2> QED
    BY <2>2, <2>3
<1>7. PICK m \in DOMAIN facts : facts[m].end = d /\ facts[m].form = "10-Q" /\ facts[m].fiscalYear = Year(d) + 1
  <2>1. d + 4 \in first .. quarter - 1
    BY <1>5
  <2>2. (d + 4) - 4 = d
    BY <1>4
  <2> DEFINE Said(q) == \E m \in DOMAIN facts :
            facts[m].end = q - 4 /\ facts[m].form = "10-Q" /\ facts[m].fiscalYear = Year(q)
  <2>3. \A q \in first .. quarter - 1 : ~IsYearEnd(q) => Said(q)
    BY <1>1 DEF AllFiled
  <2>4. Said(d + 4)
    <3> HIDE DEF Said
    <3> QED
      BY <1>6, <2>1, <2>3
  <2>5. PICK m \in DOMAIN facts :
            facts[m].end = (d + 4) - 4 /\ facts[m].form = "10-Q" /\ facts[m].fiscalYear = Year(d + 4)
    BY <2>4
  <2>6. facts[m].end = d /\ facts[m].form = "10-Q" /\ facts[m].fiscalYear = Year(d) + 1
    BY <1>6, <2>2, <2>5
  <2> QED
    BY <2>6
<1>8. facts[i].filed < facts[m].filed /\ facts[m].tag = facts[k].tag
  <2>1. Year(d) \in Nat
    BY <1>4, QuarterYear
  <2> QED
    BY <1>1, <1>4, <1>7, <2>1 DEF YearsInOrder
<1>9. m \notin Concept
  <2>1. facts[i].filed \in Nat /\ facts[m].filed \in Nat
    <3>1. facts[i] \in Fact /\ facts[m] \in Fact
      BY <1>1, <1>4, <1>7 DEF FactsTypeOK
    <3> QED
      BY <3>1 DEF Fact
  <2> QED
    BY <1>2, <1>4, <1>7, <1>8, <2>1 DEF Takes
<1>10. facts[k].tag = 2 /\ facts[i].tag = 1
  BY <1>1, <1>4, <1>7, <1>8, <1>9, ConceptIs
<1>11. PICK n \in DOMAIN facts : facts[n].end = e /\ facts[n].form = "10-Q" /\ facts[n].fiscalYear = Year(d)
  <2>1. e \in first .. quarter - 1
    BY <1>5
  <2> QED
    BY <1>1, <2>1 DEF AllFiled
<1>12. facts[n].tag = 1
  BY <1>1, <1>4, <1>10, <1>11 DEF YearsInOrder
<1>13. n \in Concept
  BY <1>1, <1>11, <1>12, ConceptIs
<1> QED
  BY <1>1, <1>4, <1>10, <1>11, <1>12, <1>13, ConceptIs

\* They are taken from filings of the same year.
LEMMA SameYear ==
    ASSUME FactsIInv, NEW d \in Ends(Concept), NEW e \in Ends(Concept),
           ~IsYearEnd(d), ~IsYearEnd(e), Year(d) = Year(e),
           e \in first .. quarter - 1 <=> d \in first .. quarter - 1,
           e + 4 \in first .. quarter - 1 <=> d + 4 \in first .. quarter - 1
    PROVE  OnePerEnd[d].fiscalYear = OnePerEnd[e].fiscalYear
<1>1. ASSUME NEW c \in Ends(Concept), ~IsYearEnd(c) PROVE OnePerEnd[c].fiscalYear \in {Year(c), Year(c) + 1}
  <2>1. /\ c \in 1 .. LastQuarter
        /\ OnePerEnd[c] \in Fact /\ OnePerEnd[c].end = c /\ FactSound(OnePerEnd[c]) /\ OnePerEnd[c].form = "10-Q"
    BY <1>1, TakenIs
  <2>2. c + 4 * (OnePerEnd[c].fiscalYear - Year(c)) \in {c, c + 4}
    BY <2>1 DEF FactSound, FiledFor
  <2>3. Year(c) \in Nat /\ OnePerEnd[c].fiscalYear \in Nat
    <3>1. c \in Nat \ {0}
      BY <2>1
    <3>2. Year(c) \in Nat
      BY <3>1, QuarterYear
    <3> QED
      BY <2>1, <3>2 DEF Fact
  <2> QED
    BY <2>1, <2>2, <2>3
<1>2. OnePerEnd[d].fiscalYear \in {Year(d), Year(d) + 1} /\ OnePerEnd[e].fiscalYear \in {Year(d), Year(d) + 1}
  BY <1>1
<1>3. ~(OnePerEnd[d].fiscalYear = Year(d) /\ OnePerEnd[e].fiscalYear = Year(d) + 1)
  BY YearNotLater
<1>4. ~(OnePerEnd[e].fiscalYear = Year(d) /\ OnePerEnd[d].fiscalYear = Year(d) + 1)
  BY YearNotLater
<1> QED
  BY <1>2, <1>3, <1>4

Row == [end : 1 .. LastQuarter, value : Int]

\* The greatest of some quarters.
LEMMA GreatestIs ==
    ASSUME NEW n \in Nat, NEW S \in SUBSET (1 .. n), S # {}
    PROVE  Max(S) \in S /\ \A x \in S : x <= Max(S)
<1>1. IsFiniteSet(S)
  <2>1. IsFiniteSet(1 .. n)
    BY FS_Interval
  <2> QED
    BY <2>1, FS_Subset
<1>2. \E m \in S : \A x \in S : x <= m
  <2>1. S \in SUBSET Int
    OBVIOUS
  <2> QED
    BY <1>1, <2>1, GreatestOfFinite
<1>3. \E m \in S : \A x \in S : m >= x
  BY <1>2
<1>4. Max(S) \in S /\ \A x \in S : Max(S) >= x
  BY <1>3, Zenon DEF Max
<1> QED
  BY <1>4

\* One period adds at most a row.
LEMMA AddQuarterType ==
    ASSUME FactsTypeOK, NEW D \in SUBSET (1 .. LastQuarter), NEW chosen \in [D -> Fact],
           NEW out \in Seq(Row), NEW e \in D
    PROVE  /\ AddQuarter(chosen, out, e) \in Seq(Row)
           /\ \/ AddQuarter(chosen, out, e) = out /\ chosen[e].form # "10-Q"
              \/ \E v \in Int : AddQuarter(chosen, out, e) = Append(out, [end |-> e, value |-> v])
<1> DEFINE prior == PriorYtd(chosen, e)
           less == IF prior = {} THEN 0 ELSE chosen[Max(prior)].value
           A == AddQuarter(chosen, out, e)
<1>1. \A d \in D : chosen[d].value \in Int
  BY DEF Fact
<1>2. less \in Int
  <2>1. prior \in SUBSET (1 .. LastQuarter) /\ prior \in SUBSET D /\ LastQuarter \in Nat
    BY DEF PriorYtd
  <2>2. prior # {} => Max(prior) \in prior
    <3> HIDE DEF prior
    <3> QED
      BY <2>1, GreatestIs
  <2> HIDE DEF prior
  <2>3. prior # {} => chosen[Max(prior)].value \in Int
    BY <1>1, <2>1, <2>2
  <2> QED
    BY <2>3
<1>3. Len(out) >= 3 => LastThree(out) \in Int
  <2> DEFINE n == Len(out)
  <2>1. n \in Nat /\ \A i \in 1 .. n : out[i].value \in Int
    <3>1. n \in Nat /\ \A i \in 1 .. n : out[i] \in Row
      <4> HIDE DEF Row
      <4> QED
        OBVIOUS
    <3> QED
      BY <3>1 DEF Row
  <2>2. LastThree(out) = out[n - 2].value + out[n - 1].value + out[n].value
    BY DEF LastThree
  <2> SUFFICES ASSUME n >= 3 PROVE LastThree(out) \in Int
    OBVIOUS
  <2> HIDE DEF n
  <2>3. n - 2 \in 1 .. n /\ n - 1 \in 1 .. n /\ n \in 1 .. n
    BY <2>1
  <2>4. out[n - 2].value \in Int /\ out[n - 1].value \in Int /\ out[n].value \in Int
    BY <2>1, <2>3
  <2> QED
    BY <2>2, <2>4
<1>4. Len(out) \in Nat
  OBVIOUS
<1>5. A = IF chosen[e].form \in AnnualForms
          THEN IF Len(out) < 3 THEN out
               ELSE Append(out, [end |-> e, value |-> chosen[e].value - LastThree(out)])
          ELSE Append(out, [end |-> e, value |-> chosen[e].value - less])
  BY DEF AddQuarter
<1> HIDE DEF A, less
<1>6. (A = out /\ chosen[e].form # "10-Q") \/ \E v \in Int : A = Append(out, [end |-> e, value |-> v])
  <2>1. CASE chosen[e].form \in AnnualForms /\ Len(out) < 3
    BY <1>5, <2>1 DEF AnnualForms
  <2>2. CASE chosen[e].form \in AnnualForms /\ ~(Len(out) < 3)
    <3>1. chosen[e].value - LastThree(out) \in Int
      BY <1>1, <1>3, <1>4, <2>2
    <3> QED
      BY <1>5, <2>2, <3>1
  <2>3. CASE chosen[e].form \notin AnnualForms
    <3>1. chosen[e].value - less \in Int
      BY <1>1, <1>2
    <3> QED
      BY <1>5, <2>3, <3>1
  <2> QED
    BY <2>1, <2>2, <2>3
<1>7. ASSUME NEW v \in Int PROVE Append(out, [end |-> e, value |-> v]) \in Seq(Row)
  <2>1. [end |-> e, value |-> v] \in Row
    BY DEF Row
  <2> HIDE DEF Row
  <2> QED
    BY <2>1
<1> QED
  BY <1>6, <1>7 DEF A

\* A function that collects the rows as _quarters does.
Rows(g) ==
    g = [e \in 0 .. LastQuarter |->
            IF e = 0 THEN <<>>
            ELSE IF e \in DOMAIN OnePerEnd THEN AddQuarter(OnePerEnd, g[e - 1], e) ELSE g[e - 1]]

\* Every end has a fact chosen for it.
LEMMA ChosenType ==
    ASSUME FactsIInv
    PROVE  /\ Ends(Concept) \in SUBSET (1 .. LastQuarter) /\ DOMAIN OnePerEnd = Ends(Concept)
           /\ OnePerEnd \in [Ends(Concept) -> Fact]
<1>1. \A e \in Ends(Concept) : e \in 1 .. LastQuarter /\ OnePerEnd[e] \in Fact
  BY TakenIs
<1>2. OnePerEnd = [e \in Ends(Concept) |-> OnePerEnd[e]]
  BY DEF OnePerEnd
<1> HIDE DEF Fact
<1> QED
  BY <1>1, <1>2

\* There is such a function.
LEMMA RowsExist == ASSUME FactsIInv PROVE \E g \in [0 .. LastQuarter -> Seq(Row)] : Rows(g)
<1> DEFINE D == DOMAIN OnePerEnd
           next(e, out) == IF e \in D THEN AddQuarter(OnePerEnd, out, e) ELSE out
           step == [p \in (1 .. LastQuarter) \X Seq(Row) |-> next(p[1], p[2])]
<1>1. D \in SUBSET (1 .. LastQuarter) /\ OnePerEnd \in [D -> Fact] /\ FactsTypeOK
  BY ChosenType DEF FactsIInv
<1>2. \A e \in 1 .. LastQuarter, out \in Seq(Row) : next(e, out) \in Seq(Row)
  BY <1>1, AddQuarterType
<1> HIDE DEF next
<1>3. step \in [(1 .. LastQuarter) \X Seq(Row) -> Seq(Row)]
  <2>1. \A p \in (1 .. LastQuarter) \X Seq(Row) : next(p[1], p[2]) \in Seq(Row)
    BY <1>2
  <2> QED
    BY <2>1, Zenon
<1>4. \A e \in 1 .. LastQuarter, out \in Seq(Row) : step[<<e, out>>] = next(e, out)
  OBVIOUS
<1> HIDE DEF step
<1>5. PICK h \in [0 .. LastQuarter -> Seq(Row)] : CountsUp(h, LastQuarter, <<>>, step)
  <2>1. LastQuarter \in Nat /\ <<>> \in Seq(Row)
    OBVIOUS
  <2> QED
    BY <1>3, <2>1, CountExists, Zenon
<1>6. h = [e \in 0 .. LastQuarter |-> IF e = 0 THEN <<>> ELSE step[<<e, h[e - 1]>>]]
  BY <1>5 DEF CountsUp
<1>7. ASSUME NEW e \in 0 .. LastQuarter, e # 0 PROVE step[<<e, h[e - 1]>>] = next(e, h[e - 1])
  <2>1. e \in 1 .. LastQuarter /\ h[e - 1] \in Seq(Row)
    BY <1>7
  <2> QED
    BY <1>4, <2>1
<1>8. [e \in 0 .. LastQuarter |-> IF e = 0 THEN <<>> ELSE step[<<e, h[e - 1]>>]]
      = [e \in 0 .. LastQuarter |-> IF e = 0 THEN <<>> ELSE next(e, h[e - 1])]
  BY <1>7
<1>9. Rows(h)
  BY <1>6, <1>8, Zenon DEF Rows, next
<1> QED
  BY <1>9

\* The discrete quarters, one period at a time.
LEMMA QuartersAre ==
    ASSUME FactsIInv
    PROVE  /\ Quarters \in [0 .. LastQuarter -> Seq(Row)] /\ Quarters[0] = <<>>
           /\ \A e \in 1 .. LastQuarter :
                Quarters[e] = IF e \in Ends(Concept) THEN AddQuarter(OnePerEnd, Quarters[e - 1], e)
                              ELSE Quarters[e - 1]
<1>1. Quarters = CHOOSE g : Rows(g)
  BY DEF Quarters, Rows
<1>2. Rows(Quarters)
  BY <1>1, RowsExist, Zenon
<1> DEFINE g == Quarters
<1> HIDE DEF g
<1>3. g = [e \in 0 .. LastQuarter |->
            IF e = 0 THEN <<>>
            ELSE IF e \in DOMAIN OnePerEnd THEN AddQuarter(OnePerEnd, g[e - 1], e) ELSE g[e - 1]]
  BY <1>2 DEF g, Rows
<1>4. DOMAIN OnePerEnd = Ends(Concept) /\ Ends(Concept) \in SUBSET (1 .. LastQuarter)
      /\ OnePerEnd \in [Ends(Concept) -> Fact] /\ FactsTypeOK
  BY ChosenType DEF FactsIInv
<1>5. 0 \in 0 .. LastQuarter /\ LastQuarter \in Nat
  OBVIOUS
<1>6. g[0] = <<>>
  BY <1>3, <1>5, Zenon
<1>7. ASSUME NEW e \in 1 .. LastQuarter
      PROVE  g[e] = IF e \in Ends(Concept) THEN AddQuarter(OnePerEnd, g[e - 1], e) ELSE g[e - 1]
  <2>1. e \in 0 .. LastQuarter /\ e # 0
    BY <1>5
  <2> QED
    BY <1>3, <1>4, <2>1, Zenon
<1> DEFINE G == {e \in 0 .. LastQuarter : g[e] \in Seq(Row)}
<1>8. 0 \in G
  <2>1. <<>> \in Seq(Row)
    OBVIOUS
  <2> QED
    BY <1>5, <1>6, <2>1
<1>9. ASSUME NEW e \in 1 .. LastQuarter, e - 1 \in G PROVE e \in G
  <2>1. e \in 0 .. LastQuarter /\ g[e - 1] \in Seq(Row)
    BY <1>5, <1>9
  <2>2. e \in Ends(Concept) => AddQuarter(OnePerEnd, g[e - 1], e) \in Seq(Row)
    BY <1>4, <2>1, AddQuarterType
  <2> QED
    BY <1>7, <2>1, <2>2
<1> HIDE DEF G
<1>10. \A e \in 0 .. LastQuarter : e \in G
  BY <1>5, <1>8, <1>9, UpFromZero
<1>11. \A e \in 0 .. LastQuarter : g[e] \in Seq(Row)
  BY <1>10 DEF G
<1>12. g = [e \in 0 .. LastQuarter |-> g[e]]
  BY <1>3, Zenon
<1> QED
  BY <1>6, <1>7, <1>11, <1>12 DEF g

\* No quarter of the year is restated.
AsFiled(y) == \A q \in restated : Year(q) # y

\* Then none of the year up to one of its quarters is.
LEMMA AsFiledIs ==
    ASSUME FactsTypeOK, NEW e \in 1 .. LastQuarter, AsFiled(Year(e))
    PROVE  \A q \in YearStart(e) + 1 .. e : q \notin restated
<1> SUFFICES ASSUME NEW q \in YearStart(e) + 1 .. e PROVE Year(q) = Year(e)
  BY DEF AsFiled
<1>1. e \in Nat /\ YearStart(e) \in 0 .. LastQuarter
  BY YearStarts
<1> QED
  BY <1>1 DEF Year, YearStart

\* The row of a quarter that is no year's end.  Its value is the quarter's flow if
\* the quarter before is the year's last or taken from the same year's filings.
LEMMA QuarterRow ==
    ASSUME FactsIInv, NEW e \in Ends(Concept), ~IsYearEnd(e)
    PROVE  \E v \in Int :
             /\ Quarters[e] = Append(Quarters[e - 1], [end |-> e, value |-> v])
             /\ /\ AsFiled(Year(e))
                /\ \/ e - 1 = YearStart(e)
                   \/ e - 1 \in Ends(Concept) /\ OnePerEnd[e - 1].fiscalYear = OnePerEnd[e].fiscalYear
                => v = SoFar[e] - SoFar[e - 1]
<1> DEFINE f == OnePerEnd[e]
           prior == PriorYtd(OnePerEnd, e)
           less == IF prior = {} THEN 0 ELSE OnePerEnd[Max(prior)].value
<1>1. /\ FactsTypeOK
      /\ e \in 1 .. LastQuarter /\ e < quarter
      /\ f \in Fact /\ f.end = e /\ FactSound(f) /\ f.form = "10-Q" /\ f.start = StartFor(e)
  BY TakenIs DEF FactsIInv
<1>2. /\ e - 1 \in 0 .. LastQuarter /\ Quarters[e - 1] \in Seq(Row)
      /\ Quarters[e] = AddQuarter(OnePerEnd, Quarters[e - 1], e)
  BY <1>1, QuartersAre
<1>3. Quarters[e] = Append(Quarters[e - 1], [end |-> e, value |-> f.value - less])
  BY <1>1, <1>2 DEF AddQuarter, AnnualForms
<1>4. \E v \in Int : Quarters[e] = Append(Quarters[e - 1], [end |-> e, value |-> v])
  <2>1. Ends(Concept) \in SUBSET (1 .. LastQuarter) /\ OnePerEnd \in [Ends(Concept) -> Fact]
    BY ChosenType
  <2>2. \/ AddQuarter(OnePerEnd, Quarters[e - 1], e) = Quarters[e - 1] /\ OnePerEnd[e].form # "10-Q"
        \/ \E v \in Int : AddQuarter(OnePerEnd, Quarters[e - 1], e)
                         = Append(Quarters[e - 1], [end |-> e, value |-> v])
    BY <1>1, <1>2, <2>1, AddQuarterType, Zenon
  <2>3. OnePerEnd[e].form = "10-Q"
    BY <1>1
  <2> QED
    BY <1>2, <2>2, <2>3, Zenon
<1>5. PICK v \in Int : Quarters[e] = Append(Quarters[e - 1], [end |-> e, value |-> v])
  BY <1>4
<1>6. v = f.value - less
  <2> DEFINE out == Quarters[e - 1]
             r == [end |-> e, value |-> v]
             s == [end |-> e, value |-> f.value - less]
  <2>1. out \in Seq(Row) /\ Append(out, r) = Append(out, s)
    BY <1>2, <1>3, <1>5
  <2>2. Append(out, r)[Len(out) + 1] = r /\ Append(out, s)[Len(out) + 1] = s
    <3> HIDE DEF Row, out, r, s
    <3> QED
      BY <2>1
  <2>3. r.value = s.value
    BY <2>1, <2>2
  <2> QED
    BY <2>3
<1> SUFFICES ASSUME AsFiled(Year(e)),
                    \/ e - 1 = YearStart(e)
                    \/ e - 1 \in Ends(Concept) /\ OnePerEnd[e - 1].fiscalYear = f.fiscalYear
             PROVE  f.value - less = SoFar[e] - SoFar[e - 1]
  BY <1>5, <1>6
<1>7. YearStart(e) \in Nat /\ YearStart(e) < e /\ e - 1 \in Nat
  <2>1. e \in Nat \ {0}
    BY <1>1
  <2> QED
    BY <2>1, QuarterYear
<1>8. f.value = Total(f.start, e)
  <2>1. \A q \in f.start + 1 .. e : q \notin restated
    <3>1. f.start \in {YearStart(e), e - 1}
      BY <1>1 DEF StartFor
    <3> QED
      BY <1>1, <1>7, <3>1, AsFiledIs
  <2> QED
    BY <1>1, <2>1 DEF FactSound
<1>9. \A d \in prior : /\ d \in Ends(Concept) /\ d < e /\ ~IsYearEnd(d)
                       /\ OnePerEnd[d].start = f.start /\ d \in 1 .. LastQuarter
                       /\ YearStart(d) <= f.start /\ f.start < d
  <2> SUFFICES ASSUME NEW d \in prior
               PROVE  /\ d \in Ends(Concept) /\ d < e /\ ~IsYearEnd(d)
                      /\ OnePerEnd[d].start = f.start /\ d \in 1 .. LastQuarter
                      /\ YearStart(d) <= f.start /\ f.start < d
    OBVIOUS
  <2>1. d \in Ends(Concept) /\ d < e /\ OnePerEnd[d].form = "10-Q" /\ OnePerEnd[d].start = f.start
    BY ChosenType DEF PriorYtd
  <2>2. OnePerEnd[d].end = d /\ FactSound(OnePerEnd[d]) /\ ~IsYearEnd(d) /\ d \in 1 .. LastQuarter
    BY <2>1, TakenIs
  <2> QED
    BY <2>1, <2>2 DEF FactSound
<1>10. CASE f.start = e - 1
  <2>1. prior = {}
    <3> SUFFICES ASSUME NEW d \in prior PROVE FALSE
      OBVIOUS
    <3>1. d \in Nat /\ d < e /\ e - 1 < d
      BY <1>9, <1>10
    <3> QED
      BY <1>1, <3>1
  <2>2. f.value = SoFar[e] - SoFar[e - 1]
    BY <1>8, <1>10 DEF Total
  <2>3. SoFar[e] \in Int /\ SoFar[e - 1] \in Int
    BY <1>1, <1>2, SoFarIs
  <2>4. less = 0
    BY <2>1
  <2> HIDE DEF less
  <2> QED
    BY <2>2, <2>3, <2>4
<1>11. CASE f.start # e - 1
  <2>1. f.start = YearStart(e) /\ e - 1 # YearStart(e) /\ style # "quarter_ytd"
    BY <1>1, <1>11 DEF StartFor
  <2>2. e - 1 \in Ends(Concept) /\ OnePerEnd[e - 1].fiscalYear = f.fiscalYear
    BY <2>1
  <2>3. ~IsYearEnd(e - 1) /\ YearStart(e - 1) = YearStart(e) /\ Year(e - 1) = Year(e)
    <3>1. e - 1 \in Nat \ {0} /\ YearStart(e) < e - 1
      BY <1>1, <1>7, <2>1
    <3>2. e - 1 > 4 * Year(e) /\ e = e - 1 + 1 /\ Year(e) \in Nat
      <4>1. e \in Nat \ {0}
        BY <1>1
      <4> QED
        BY <1>7, <3>1, <4>1, QuarterYear DEF YearStart
    <3> QED
      BY <3>1, <3>2, <1>1 DEF Year, IsYearEnd, YearStart
  <2>4. /\ OnePerEnd[e - 1].form = "10-Q" /\ OnePerEnd[e - 1].start = f.start
        /\ OnePerEnd[e - 1].end = e - 1 /\ FactSound(OnePerEnd[e - 1]) /\ e - 1 \in 1 .. LastQuarter
    BY <2>1, <2>2, <2>3, TakenIs DEF StartFor
  <2>5. e - 1 \in prior
    <3>1. e - 1 < e
      BY <1>1
    <3> QED
      BY <2>2, <2>4, <3>1, ChosenType DEF PriorYtd
  <2>6. Max(prior) = e - 1
    <3>1. prior \in SUBSET (1 .. LastQuarter) /\ LastQuarter \in Nat
      BY <1>9
    <3>2. Max(prior) \in prior /\ e - 1 <= Max(prior)
      <4> HIDE DEF prior
      <4> QED
        BY <2>5, <3>1, GreatestIs
    <3>3. Max(prior) \in Nat /\ Max(prior) < e
      BY <1>9, <3>1, <3>2
    <3> HIDE DEF prior
    <3> QED
      BY <1>1, <3>2, <3>3
  <2>7. OnePerEnd[e - 1].value = Total(YearStart(e), e - 1)
    <3>1. \A q \in YearStart(e) + 1 .. e - 1 : q \notin restated
      <4>1. \A q \in YearStart(e) + 1 .. e : q \notin restated
        BY <1>1, AsFiledIs
      <4> QED
        BY <1>1, <1>7, <4>1
    <3> QED
      BY <2>1, <2>4, <3>1 DEF FactSound
  <2>8. less = OnePerEnd[e - 1].value
    BY <2>5, <2>6
  <2>9. SoFar[e] \in Int /\ SoFar[e - 1] \in Int /\ SoFar[YearStart(e)] \in Int
    BY <1>1, <1>2, YearStarts, SoFarIs
  <2>10. f.value = SoFar[e] - SoFar[YearStart(e)] /\ less = SoFar[e - 1] - SoFar[YearStart(e)]
    BY <1>8, <2>1, <2>7, <2>8 DEF Total
  <2> HIDE DEF less
  <2> QED
    BY <2>9, <2>10
<1> QED
  BY <1>10, <1>11

\* What a 10-K says of a year.
LEMMA YearEndFact ==
    ASSUME FactsIInv, NEW i \in Concept, facts[i].form # "10-Q", AsFiled(Year(facts[i].end))
    PROVE  facts[i].value = SoFar[facts[i].end] - SoFar[facts[i].end - 4]
<1> DEFINE f == facts[i]
           e == f.end
<1>1. i \in DOMAIN facts /\ FactsTypeOK
  BY ConceptIs DEF FactsIInv
<1>2. f \in Fact /\ FactSound(f)
  BY <1>1 DEF FactsIInv, FactsTypeOK, FactsSound
<1>3. e \in 1 .. LastQuarter /\ f.start = YearStart(e) /\ IsYearEnd(e)
  BY <1>2 DEF Fact, FactSound
<1>4. f.value = Total(YearStart(e), e)
  <2>1. \A q \in YearStart(e) + 1 .. e : q \notin restated
    BY <1>1, <1>3, AsFiledIs
  <2> QED
    BY <1>2, <1>3, <2>1 DEF FactSound
<1>5. YearStart(e) = e - 4
  <2>1. e \in Nat \ {0}
    BY <1>3
  <2> HIDE DEF e
  <2>2. YearStart(e) \in Nat /\ e = YearStart(e) + 4
    BY <1>3, <2>1, QuarterYear
  <2> QED
    BY <2>2
<1> HIDE DEF f
<1> QED
  BY <1>4, <1>5 DEF Total, f

\* The row is that figure less the three before it.
LEMMA YearEndRow ==
    ASSUME FactsIInv, NEW e \in Ends(Concept), IsYearEnd(e)
    PROVE  /\ e - 4 \in Nat
           /\ Quarters[e] = IF Len(Quarters[e - 1]) < 3 THEN Quarters[e - 1]
                            ELSE Append(Quarters[e - 1],
                                        [end |-> e, value |-> OnePerEnd[e].value - LastThree(Quarters[e - 1])])
           /\ AsFiled(Year(e)) => OnePerEnd[e].value = SoFar[e] - SoFar[e - 4]
<1>1. /\ e \in 1 .. LastQuarter /\ OnePerEnd[e] \in Fact /\ OnePerEnd[e].end = e
      /\ OnePerEnd[e].form # "10-Q"
  BY TakenIs
<1>2. OnePerEnd[e].form \in AnnualForms
  BY <1>1 DEF Fact, Forms
<1>3. Quarters[e] = AddQuarter(OnePerEnd, Quarters[e - 1], e)
  BY <1>1, QuartersAre
<1>4. e - 4 \in Nat
  <2>1. e \in Nat \ {0}
    BY <1>1
  <2> QED
    BY <2>1, QuarterYear
<1>5. PICK i : Takes(e, i)
  BY TakesOne DEF FactsIInv
<1>6. AsFiled(Year(e)) => OnePerEnd[e].value = SoFar[e] - SoFar[e - 4]
  BY <1>1, <1>5, YearEndFact DEF Takes
<1> QED
  BY <1>2, <1>3, <1>4, <1>6 DEF AddQuarter

\* One row more, and what the list is then.
AddsRow(out, e, v, s) == s = Append(out, [end |-> e, value |-> v])

RowAdded(out, e, v, s) ==
    /\ s \in Seq(Row) /\ Len(out) \in Nat /\ Len(s) = Len(out) + 1
    /\ s[Len(out) + 1].end = e /\ s[Len(out) + 1].value = v
    /\ \A i \in 1 .. Len(out) : s[i] = out[i]

LEMMA OneMoreRow ==
    ASSUME NEW out \in Seq(Row), NEW e \in 1 .. LastQuarter, NEW v \in Int, NEW s, AddsRow(out, e, v, s)
    PROVE  RowAdded(out, e, v, s)
<1> DEFINE r == [end |-> e, value |-> v]
<1>1. r \in Row /\ r.end = e /\ r.value = v
  BY DEF Row
<1> HIDE DEF Row, r
<1>2. s = Append(out, r)
  BY DEF AddsRow, r
<1>3. s \in Seq(Row) /\ Len(out) \in Nat /\ Len(s) = Len(out) + 1 /\ s[Len(out) + 1] = r
  BY <1>1, <1>2
<1>4. \A i \in 1 .. Len(out) : s[i] = out[i]
  BY <1>1, <1>2
<1> QED
  BY <1>1, <1>3, <1>4 DEF RowAdded

\* A list that grows by a row for each quarter up to k, and its last values.
Grows(g, v, j, k) == \A i \in j .. k : AddsRow(g[i - 1], i, v[i], g[i])

\* The last three values of a list that has just grown by three.
LEMMA ThreeMoreRows ==
    ASSUME NEW g \in [0 .. LastQuarter -> Seq(Row)], NEW v \in [0 .. LastQuarter -> Int],
           NEW k \in 3 .. LastQuarter, Grows(g, v, k - 2, k)
    PROVE  /\ Len(g[k]) \in Nat /\ Len(g[k]) >= 3 /\ g[k][Len(g[k])].end = k
           /\ LastThree(g[k]) = v[k - 2] + v[k - 1] + v[k]
<1> DEFINE r == g[k - 3]
           s == g[k - 2]
           t == g[k - 1]
           u == g[k]
           n == Len(r)
<1>1. RowAdded(r, k - 2, v[k - 2], s) /\ RowAdded(s, k - 1, v[k - 1], t) /\ RowAdded(t, k, v[k], u)
  <2>1. ASSUME NEW i \in k - 2 .. k PROVE RowAdded(g[i - 1], i, v[i], g[i])
    <3>1. i \in 1 .. LastQuarter /\ g[i - 1] \in Seq(Row) /\ v[i] \in Int /\ AddsRow(g[i - 1], i, v[i], g[i])
      BY DEF Grows
    <3> QED
      BY <3>1, OneMoreRow
  <2>2. /\ k - 2 \in k - 2 .. k /\ k - 1 \in k - 2 .. k /\ k \in k - 2 .. k
        /\ (k - 2) - 1 = k - 3 /\ (k - 1) - 1 = k - 2
    OBVIOUS
  <2> QED
    BY <2>1, <2>2
<1> HIDE DEF r, s, t, u
<1>2. n \in Nat /\ Len(s) = n + 1 /\ Len(t) = n + 2 /\ Len(u) = n + 3
  BY <1>1 DEF RowAdded
<1>3. /\ s[n + 1].value = v[k - 2] /\ t[Len(s) + 1].value = v[k - 1]
      /\ u[Len(t) + 1].value = v[k] /\ u[Len(t) + 1].end = k
  BY <1>1 DEF RowAdded
<1>4. (\A i \in 1 .. Len(s) : t[i] = s[i]) /\ (\A i \in 1 .. Len(t) : u[i] = t[i])
  BY <1>1 DEF RowAdded
<1> HIDE DEF n
<1>5. u[n + 1].value = v[k - 2] /\ u[n + 2].value = v[k - 1] /\ u[n + 3].value = v[k] /\ u[n + 3].end = k
  <2>0. n + 1 \in 1 .. Len(s) /\ n + 1 \in 1 .. Len(t) /\ n + 2 \in 1 .. Len(t)
    BY <1>2
  <2>1. t[n + 1] = s[n + 1] /\ u[n + 1] = t[n + 1] /\ u[n + 2] = t[n + 2]
    BY <1>4, <2>0
  <2>2. Len(s) + 1 = n + 2 /\ Len(t) + 1 = n + 3
    BY <1>2
  <2> QED
    BY <1>3, <2>1, <2>2
<1>6. LastThree(u) = u[Len(u) - 2].value + u[Len(u) - 1].value + u[Len(u)].value
  BY DEF LastThree
<1>7. Len(u) - 2 = n + 1 /\ Len(u) - 1 = n + 2 /\ Len(u) = n + 3 /\ Len(u) \in Nat /\ Len(u) >= 3
  BY <1>2
<1>8. LastThree(u) = v[k - 2] + v[k - 1] + v[k] /\ u[Len(u)].end = k
  BY <1>5, <1>6, <1>7
<1> QED
  BY <1>7, <1>8 DEF u

\* And the last four.
LEMMA FourMoreRows ==
    ASSUME NEW g \in [0 .. LastQuarter -> Seq(Row)], NEW v \in [0 .. LastQuarter -> Int],
           NEW k \in 4 .. LastQuarter, Grows(g, v, k - 3, k)
    PROVE  /\ ~(Len(g[k]) < 4) /\ g[k][Len(g[k])].end = k
           /\ g[k][Len(g[k]) - 3].value + LastThree(g[k]) = v[k - 3] + v[k - 2] + v[k - 1] + v[k]
<1>1. k \in 3 .. LastQuarter /\ Grows(g, v, k - 2, k)
  BY DEF Grows
<1>2. /\ Len(g[k]) \in Nat /\ g[k][Len(g[k])].end = k
      /\ LastThree(g[k]) = v[k - 2] + v[k - 1] + v[k]
  BY <1>1, ThreeMoreRows
<1> DEFINE r == g[k - 3]
           s == g[k - 2]
           t == g[k - 1]
           u == g[k]
           n == Len(r)
<1>3. /\ RowAdded(g[k - 4], k - 3, v[k - 3], r) /\ RowAdded(r, k - 2, v[k - 2], s)
      /\ RowAdded(s, k - 1, v[k - 1], t) /\ RowAdded(t, k, v[k], u)
  <2>1. ASSUME NEW i \in k - 3 .. k PROVE RowAdded(g[i - 1], i, v[i], g[i])
    <3>1. i \in 1 .. LastQuarter /\ g[i - 1] \in Seq(Row) /\ v[i] \in Int /\ AddsRow(g[i - 1], i, v[i], g[i])
      BY DEF Grows
    <3> QED
      BY <3>1, OneMoreRow
  <2>2. /\ k - 3 \in k - 3 .. k /\ k - 2 \in k - 3 .. k /\ k - 1 \in k - 3 .. k /\ k \in k - 3 .. k
        /\ (k - 3) - 1 = k - 4 /\ (k - 2) - 1 = k - 3 /\ (k - 1) - 1 = k - 2
    OBVIOUS
  <2> QED
    BY <2>1, <2>2
<1> HIDE DEF r, s, t, u
<1>4. Len(g[k - 4]) \in Nat /\ n = Len(g[k - 4]) + 1 /\ r[n].value = v[k - 3]
  BY <1>3 DEF RowAdded
<1>12. Len(s) = n + 1 /\ Len(t) = Len(s) + 1 /\ Len(u) = Len(t) + 1
  BY <1>3 DEF RowAdded
<1>13. n \in Nat /\ n >= 1
  BY <1>4
<1> HIDE DEF n
<1>5. /\ \A i \in 1 .. n : s[i] = r[i]
      /\ \A i \in 1 .. Len(s) : t[i] = s[i]
      /\ \A i \in 1 .. Len(t) : u[i] = t[i]
  BY <1>3 DEF RowAdded, n
<1>6. u[n].value = v[k - 3]
  <2>0. n \in 1 .. n /\ n \in 1 .. Len(s) /\ n \in 1 .. Len(t)
    BY <1>12, <1>13
  <2>1. s[n] = r[n] /\ t[n] = s[n] /\ u[n] = t[n]
    BY <1>5, <2>0
  <2> QED
    BY <1>4, <2>1
<1>7. Len(u) - 3 = n /\ ~(Len(u) < 4)
  BY <1>12, <1>13
<1>8. u[Len(u) - 3].value = v[k - 3]
  BY <1>6, <1>7
<1>9. v[k - 3] \in Int /\ v[k - 2] \in Int /\ v[k - 1] \in Int /\ v[k] \in Int
  OBVIOUS
<1>10. LastThree(u) = v[k - 2] + v[k - 1] + v[k] /\ u[Len(u)].end = k
  BY <1>2 DEF u
<1>11. u[Len(u) - 3].value + LastThree(u) = v[k - 3] + v[k - 2] + v[k - 1] + v[k]
  <2> DEFINE a == v[k - 3]
             b == v[k - 2]
             c == v[k - 1]
             d == v[k]
             left == u[Len(u) - 3].value
             three == LastThree(u)
  <2>1. a \in Int /\ b \in Int /\ c \in Int /\ d \in Int /\ left = a /\ three = b + c + d
    BY <1>8, <1>9, <1>10
  <2> HIDE DEF a, b, c, d, left, three
  <2>2. left + three = a + b + c + d
    BY <2>1
  <2> QED
    BY <2>2 DEF a, b, c, d, left, three
<1> QED
  BY <1>7, <1>10, <1>11 DEF u

\* Once a year is filed, the newest quarter and the filed ones before it have facts,
\* back to the year before the first.
LEMMA EndsAre ==
    ASSUME FactsIInv
    PROVE  /\ Ends(Concept) \in SUBSET (1 .. LastQuarter)
           /\ \A e \in Ends(Concept) : e <= quarter - 1
           /\ \A q \in first .. quarter - 1 : q \in Ends(Concept) /\ q - 4 \in Ends(Concept)
           /\ quarter >= first + 4 => \A e \in first - 4 .. quarter - 1 : e \in Ends(Concept)
<1>1. FactsTypeOK /\ AllFiled /\ Ends(Concept) = Ends(DOMAIN facts)
  BY ConceptIs DEF FactsIInv
<1>2. first \in 5 .. LastQuarter /\ quarter \in first .. LastQuarter + 1
  BY <1>1 DEF FactsTypeOK
<1>3. \A e \in Ends(Concept) : e \in 1 .. LastQuarter /\ e < quarter
  BY TakenIs
<1>4. ASSUME NEW q \in first .. quarter - 1 PROVE q \in Ends(Concept) /\ q - 4 \in Ends(Concept)
  <2>1. \A e \in {q, q - 4} : \E i \in DOMAIN facts : facts[i].end = e
    BY <1>1 DEF AllFiled
  <2> QED
    BY <1>1, <2>1 DEF Ends
<1>5. ASSUME quarter >= first + 4, NEW e \in first - 4 .. quarter - 1 PROVE e \in Ends(Concept)
  <2>1. CASE e >= first
    BY <1>4, <2>1
  <2>2. CASE e < first
    <3>1. e + 4 \in first .. quarter - 1 /\ (e + 4) - 4 = e
      BY <1>2, <1>5, <2>2
    <3> QED
      BY <1>4, <3>1
  <2> QED
    BY <1>2, <2>1, <2>2
<1> QED
  BY <1>2, <1>3, <1>4, <1>5

\* A quarter within a year, one of the two the newest figures are about, of a
\* record that covers its year and the one before.
Covered(e) ==
    /\ e \in Nat \ {0} /\ ~IsYearEnd(e) /\ WholeYears(e)
    /\ quarter >= first + 4 /\ first <= YearStart(e) + 1
    /\ quarter - 1 \in {e, e + 4}
    /\ AsFiled(Year(e)) /\ AsFiled(Year(e) - 1)

\* Where such a quarter lies.
LEMMA CoveredIs ==
    ASSUME FactsTypeOK, NEW e, Covered(e)
    PROVE  /\ first \in 5 .. LastQuarter /\ quarter \in first .. LastQuarter + 1
           /\ YearStart(e) \in 4 .. LastQuarter /\ e \in YearStart(e) + 1 .. YearStart(e) + 3
           /\ e \in 5 .. LastQuarter
           /\ first - 4 <= YearStart(e) - 3 /\ e <= quarter - 1
<1>1. first \in 5 .. LastQuarter /\ quarter \in first .. LastQuarter + 1 /\ e \in Nat \ {0}
  BY DEF FactsTypeOK, Covered
<1>2. /\ YearStart(e) \in Nat /\ YearStart(e) < e /\ e <= YearStart(e) + 4 /\ e # YearStart(e) + 4
  BY <1>1, QuarterYear DEF Covered
<1>3. e <= quarter - 1 /\ e + 4 >= quarter - 1 /\ quarter >= first + 4 /\ first <= YearStart(e) + 1
  BY <1>1 DEF Covered
<1>4. YearStart(e) >= 4
  <2>1. YearStart(e) = 4 * Year(e) /\ Year(e) \in Nat
    BY <1>1, QuarterYear
  <2> QED
    BY <1>1, <1>3, <2>1
<1> QED
  BY <1>1, <1>2, <1>3, <1>4

\* The rows of the year before, up to the same quarter, and of this year are the
\* quarters' flows.
LEMMA CoveredRow ==
    ASSUME FactsIInv, NEW e, Covered(e),
           NEW x \in (YearStart(e) - 3 .. e - 4) \cup (YearStart(e) + 1 .. e)
    PROVE  AddsRow(Quarters[x - 1], x, SoFar[x] - SoFar[x - 1], Quarters[x])
<1> DEFINE z == YearStart(e)
<1>1. /\ FactsTypeOK
      /\ first \in 5 .. LastQuarter /\ quarter \in first .. LastQuarter + 1
      /\ z \in 4 .. LastQuarter /\ e \in z + 1 .. z + 3 /\ e \in 5 .. LastQuarter
      /\ first - 4 <= z - 3 /\ e <= quarter - 1
  BY CoveredIs DEF FactsIInv
<1>2. z = 4 * Year(e) /\ Year(e) \in Nat
  BY <1>1, QuarterYear DEF YearStart
<1> HIDE DEF z
<1>3. x \in (z - 3 .. e - 4) \cup (z + 1 .. e)
  BY DEF z
<1>4. /\ quarter - 1 \in {e, e + 4} /\ quarter >= first + 4
      /\ AsFiled(Year(e)) /\ AsFiled(Year(e) - 1) /\ WholeYears(e) /\ ~IsYearEnd(e)
  BY DEF Covered
<1>5. \A d \in z - 3 .. e : d \in Ends(Concept)
  <2>1. \A d \in first - 4 .. quarter - 1 : d \in Ends(Concept)
    BY <1>4, EndsAre
  <2> QED
    BY <1>1, <2>1
<1>6. ASSUME NEW d \in (z - 3 .. e - 4) \cup (z + 1 .. e)
      PROVE  /\ d \in Nat \ {0} /\ ~IsYearEnd(d) /\ d \in z - 3 .. e
             /\ d \in z - 3 .. e - 4 => Year(d) = Year(e) - 1 /\ YearStart(d) = z - 4
             /\ d \in z + 1 .. e => Year(d) = Year(e) /\ YearStart(d) = z
  <2>1. d \in Nat \ {0} /\ d \in z - 3 .. e /\ d \in (z - 3 .. z - 1) \cup (z + 1 .. z + 3)
    BY <1>1
  <2> QED
    BY <1>1, <1>2, <2>1 DEF IsYearEnd, Year, YearStart
<1>7. x - 1 = YearStart(x) \/ (x - 1 \in Ends(Concept) /\ OnePerEnd[x - 1].fiscalYear = OnePerEnd[x].fiscalYear)
  <2> SUFFICES ASSUME x - 1 # YearStart(x)
               PROVE  x - 1 \in Ends(Concept) /\ OnePerEnd[x - 1].fiscalYear = OnePerEnd[x].fiscalYear
    OBVIOUS
  <2>1. \/ x - 1 \in z - 3 .. e - 4 /\ x \in z - 3 .. e - 4
        \/ x - 1 \in z + 1 .. e /\ x \in z + 1 .. e
    BY <1>1, <1>3, <1>6
  <2>2. /\ x - 1 \in Ends(Concept) /\ x \in Ends(Concept) /\ Year(x - 1) = Year(x)
        /\ ~IsYearEnd(x - 1) /\ ~IsYearEnd(x)
    BY <1>1, <1>5, <1>6, <2>1
  <2>3. x + 4 \in first .. quarter - 1 <=> (x - 1) + 4 \in first .. quarter - 1
    BY <1>1, <1>4, <2>1
  <2>4. x \in first .. quarter - 1 <=> x - 1 \in first .. quarter - 1
    <3>1. CASE x - 1 \in z + 1 .. e /\ x \in z + 1 .. e
      BY <1>1, <3>1
    <3>2. CASE x - 1 \in z - 3 .. e - 4 /\ x \in z - 3 .. e - 4
      <4>1. first # x
        <5> SUFFICES ASSUME first = x PROVE FALSE
          OBVIOUS
        <5>1. first \in z - 2 .. z - 1
          BY <1>1, <3>2
        <5>2. first % 4 \in {2, 3} /\ Year(first) + 1 = Year(e)
          BY <1>1, <1>2, <5>1 DEF Year
        <5> QED
          BY <1>2, <1>4, <5>2 DEF WholeYears
      <4> QED
        BY <1>1, <3>2, <4>1
    <3> QED
      BY <2>1, <3>1, <3>2
  <2> QED
    BY <2>2, <2>3, <2>4, SameYear
<1>8. AsFiled(Year(x)) /\ x \in Ends(Concept) /\ ~IsYearEnd(x)
  BY <1>1, <1>3, <1>4, <1>5, <1>6
<1>9. PICK v \in Int :
        /\ Quarters[x] = Append(Quarters[x - 1], [end |-> x, value |-> v])
        /\ /\ AsFiled(Year(x))
           /\ \/ x - 1 = YearStart(x)
              \/ x - 1 \in Ends(Concept) /\ OnePerEnd[x - 1].fiscalYear = OnePerEnd[x].fiscalYear
           => v = SoFar[x] - SoFar[x - 1]
  BY <1>8, QuarterRow
<1>10. v = SoFar[x] - SoFar[x - 1]
  BY <1>7, <1>8, <1>9
<1> QED
  BY <1>9, <1>10 DEF AddsRow

\* What _ttm makes of the four rows.
LEMMA CoveredSum == ASSUME FactsIInv, NEW e, Covered(e) PROVE Ttm(e) = {Total(e - 4, e)}
<1> DEFINE z == YearStart(e)
<1>1. /\ FactsTypeOK
      /\ first \in 5 .. LastQuarter /\ quarter \in first .. LastQuarter + 1
      /\ z \in 4 .. LastQuarter /\ e \in z + 1 .. z + 3 /\ e \in 5 .. LastQuarter
      /\ first - 4 <= z - 3 /\ e <= quarter - 1
  BY CoveredIs DEF FactsIInv
<1>2. /\ ~IsYearEnd(e) /\ quarter >= first + 4 /\ AsFiled(Year(e) - 1)
      /\ z = 4 * Year(e) /\ Year(e) \in Nat
  BY <1>1, QuarterYear DEF Covered, YearStart
<1>3. \A x \in (z - 3 .. e - 4) \cup (z + 1 .. e) : AddsRow(Quarters[x - 1], x, SoFar[x] - SoFar[x - 1], Quarters[x])
  BY CoveredRow
<1> HIDE DEF z
<1>4. \A d \in z - 3 .. e : d \in Ends(Concept)
  <2>1. \A d \in first - 4 .. quarter - 1 : d \in Ends(Concept)
    BY <1>2, EndsAre
  <2> QED
    BY <1>1, <2>1
<1>5. /\ ~IsYearEnd(z - 3) /\ ~IsYearEnd(z - 2) /\ ~IsYearEnd(z - 1)
      /\ IsYearEnd(z) /\ Year(z) = Year(e) - 1
  BY <1>1, <1>2 DEF IsYearEnd, Year
<1>6. ASSUME NEW x \in z - 3 .. z - 1
      PROVE  \E v \in Int : /\ AddsRow(Quarters[x - 1], x, v, Quarters[x])
                            /\ x <= e - 4 => v = SoFar[x] - SoFar[x - 1]
  <2>1. x \in Ends(Concept) /\ ~IsYearEnd(x) /\ x \in 1 .. LastQuarter /\ x - 1 \in 0 .. LastQuarter
    BY <1>1, <1>4, <1>5
  <2>2. CASE x <= e - 4
    <3>1. x \in z - 3 .. e - 4 /\ SoFar[x] - SoFar[x - 1] \in Int
      BY <1>1, <2>1, <2>2, SoFarIs
    <3> QED
      BY <1>3, <3>1
  <2>3. CASE ~(x <= e - 4)
    BY <2>1, <2>3, QuarterRow DEF AddsRow
  <2> QED
    BY <2>2, <2>3
<1>7. /\ z - 3 \in z - 3 .. z - 1 /\ z - 2 \in z - 3 .. z - 1 /\ z - 1 \in z - 3 .. z - 1
      /\ (z - 3) - 1 = z - 4 /\ (z - 2) - 1 = z - 3 /\ (z - 1) - 1 = z - 2
  BY <1>1
<1>8. PICK a \in Int : /\ AddsRow(Quarters[z - 4], z - 3, a, Quarters[z - 3])
                       /\ z - 3 <= e - 4 => a = SoFar[z - 3] - SoFar[z - 4]
  BY <1>6, <1>7
<1>9. PICK b \in Int : /\ AddsRow(Quarters[z - 3], z - 2, b, Quarters[z - 2])
                       /\ z - 2 <= e - 4 => b = SoFar[z - 2] - SoFar[z - 3]
  BY <1>6, <1>7
<1>10. PICK c \in Int : /\ AddsRow(Quarters[z - 2], z - 1, c, Quarters[z - 1])
                        /\ z - 1 <= e - 4 => c = SoFar[z - 1] - SoFar[z - 2]
  BY <1>6, <1>7
<1> DEFINE w == SoFar[z] - SoFar[z - 4] - (a + b + c)
           v == [x \in 0 .. LastQuarter |->
                    IF x = z - 3 THEN a ELSE IF x = z - 2 THEN b ELSE IF x = z - 1 THEN c
                    ELSE IF x = z THEN w ELSE IF x \in z + 1 .. e THEN SoFar[x] - SoFar[x - 1] ELSE 0]
<1>11. \A x \in 0 .. LastQuarter : SoFar[x] \in Int
  BY SoFarIs
<1>12. w \in Int
  <2>1. SoFar[z] \in Int /\ SoFar[z - 4] \in Int
    BY <1>1, <1>11
  <2> QED
    BY <2>1
<1> HIDE DEF w
<1>13. /\ v \in [0 .. LastQuarter -> Int]
       /\ v[z - 3] = a /\ v[z - 2] = b /\ v[z - 1] = c /\ v[z] = w
       /\ \A x \in z + 1 .. e : v[x] = SoFar[x] - SoFar[x - 1]
  <2>1. \A x \in z + 1 .. e : x \in 1 .. LastQuarter /\ SoFar[x] - SoFar[x - 1] \in Int
    BY <1>1, <1>11
  <2> QED
    BY <1>1, <1>12, <2>1
<1> HIDE DEF v
<1>14. Quarters \in [0 .. LastQuarter -> Seq(Row)]
  BY QuartersAre
<1>15. \A x \in z - 3 .. z - 1 : AddsRow(Quarters[x - 1], x, v[x], Quarters[x])
  <2> SUFFICES ASSUME NEW x \in z - 3 .. z - 1 PROVE AddsRow(Quarters[x - 1], x, v[x], Quarters[x])
    OBVIOUS
  <2>1. x = z - 3 \/ x = z - 2 \/ x = z - 1
    BY <1>1
  <2> QED
    BY <1>7, <1>8, <1>9, <1>10, <1>13, <2>1
<1>16. /\ LastThree(Quarters[z - 1]) = a + b + c
       /\ Len(Quarters[z - 1]) \in Nat /\ Len(Quarters[z - 1]) >= 3
  <2> DEFINE k == z - 1
  <2>1. k \in 3 .. LastQuarter /\ k - 2 = z - 3 /\ k - 1 = z - 2
    BY <1>1
  <2>2. Grows(Quarters, v, k - 2, k)
    BY <1>15, <2>1 DEF Grows
  <2> HIDE DEF k
  <2>3. /\ LastThree(Quarters[k]) = v[k - 2] + v[k - 1] + v[k]
        /\ Len(Quarters[k]) \in Nat /\ Len(Quarters[k]) >= 3
    BY <1>13, <1>14, <2>1, <2>2, ThreeMoreRows
  <2> QED
    BY <1>13, <2>1, <2>3 DEF k
<1>17. AddsRow(Quarters[z - 1], z, w, Quarters[z])
  <2>1. z \in Ends(Concept)
    BY <1>1, <1>4
  <2>2. /\ Quarters[z] = IF Len(Quarters[z - 1]) < 3 THEN Quarters[z - 1]
                         ELSE Append(Quarters[z - 1],
                                     [end |-> z, value |-> OnePerEnd[z].value - LastThree(Quarters[z - 1])])
        /\ OnePerEnd[z].value = SoFar[z] - SoFar[z - 4]
    BY <1>2, <1>5, <2>1, YearEndRow
  <2>3. ~(Len(Quarters[z - 1]) < 3)
    BY <1>16
  <2> QED
    BY <1>16, <2>2, <2>3 DEF AddsRow, w
<1>18. Grows(Quarters, v, e - 3, e)
  <2> SUFFICES ASSUME NEW x \in e - 3 .. e PROVE AddsRow(Quarters[x - 1], x, v[x], Quarters[x])
    BY DEF Grows
  <2>1. x \in z - 3 .. z - 1 \/ x = z \/ x \in z + 1 .. e
    BY <1>1
  <2> QED
    BY <1>3, <1>13, <1>15, <1>17, <2>1
<1> DEFINE q == Quarters[e]
<1>19. /\ ~(Len(q) < 4) /\ q[Len(q)].end = e
       /\ q[Len(q) - 3].value + LastThree(q) = v[e - 3] + v[e - 2] + v[e - 1] + v[e]
  <2>1. e \in 4 .. LastQuarter
    BY <1>1
  <2> QED
    BY <1>13, <1>14, <1>18, <2>1, FourMoreRows
<1>20. SoFar[e] \in Int /\ SoFar[e - 4] \in Int
  BY <1>1, <1>11
<1>21. /\ SoFar[z - 4] \in Int /\ SoFar[z - 3] \in Int /\ SoFar[z - 2] \in Int
       /\ SoFar[z - 1] \in Int /\ SoFar[z] \in Int /\ SoFar[z + 1] \in Int
       /\ z + 2 <= e => SoFar[z + 2] \in Int
       /\ z + 3 <= e => SoFar[z + 3] \in Int
  BY <1>1, <1>11
<1>22. v[e - 3] + v[e - 2] + v[e - 1] + v[e] = SoFar[e] - SoFar[e - 4]
  <2>1. CASE e = z + 1
    <3>1. /\ e - 3 = z - 2 /\ e - 2 = z - 1 /\ e - 1 = z /\ e - 4 = z - 3
          /\ v[e] = SoFar[z + 1] - SoFar[z] /\ a = SoFar[z - 3] - SoFar[z - 4]
      BY <1>1, <1>8, <1>13, <2>1
    <3>2. v[e - 3] = b /\ v[e - 2] = c /\ v[e - 1] = w /\ SoFar[e] = SoFar[z + 1] /\ SoFar[e - 4] = SoFar[z - 3]
      BY <1>13, <2>1, <3>1
    <3>3. b + c + w + (SoFar[z + 1] - SoFar[z]) = SoFar[z + 1] - SoFar[z - 3]
      BY <1>21, <3>1 DEF w
    <3> QED
      BY <3>1, <3>2, <3>3
  <2>2. CASE e = z + 2
    <3>1. /\ e - 3 = z - 1 /\ e - 2 = z /\ e - 1 = z + 1 /\ e - 4 = z - 2
          /\ v[e] = SoFar[z + 2] - SoFar[z + 1] /\ v[e - 1] = SoFar[z + 1] - SoFar[z]
      BY <1>1, <1>13, <2>2
    <3>2. a = SoFar[z - 3] - SoFar[z - 4] /\ b = SoFar[z - 2] - SoFar[z - 3]
      BY <1>1, <1>8, <1>9, <2>2
    <3>3. v[e - 3] = c /\ v[e - 2] = w /\ SoFar[e] = SoFar[z + 2] /\ SoFar[e - 4] = SoFar[z - 2]
      BY <1>13, <2>2, <3>1
    <3>4. c + w + (SoFar[z + 1] - SoFar[z]) + (SoFar[z + 2] - SoFar[z + 1]) = SoFar[z + 2] - SoFar[z - 2]
      BY <1>1, <1>21, <2>2, <3>2 DEF w
    <3> QED
      BY <3>1, <3>3, <3>4
  <2>3. CASE e = z + 3
    <3>1. /\ e - 3 = z /\ e - 2 = z + 1 /\ e - 1 = z + 2 /\ e - 4 = z - 1
          /\ v[e] = SoFar[z + 3] - SoFar[z + 2] /\ v[e - 1] = SoFar[z + 2] - SoFar[z + 1]
          /\ v[e - 2] = SoFar[z + 1] - SoFar[z]
      BY <1>1, <1>13, <2>3
    <3>2. /\ a = SoFar[z - 3] - SoFar[z - 4] /\ b = SoFar[z - 2] - SoFar[z - 3]
          /\ c = SoFar[z - 1] - SoFar[z - 2]
      BY <1>1, <1>8, <1>9, <1>10, <2>3
    <3>3. v[e - 3] = w /\ SoFar[e] = SoFar[z + 3] /\ SoFar[e - 4] = SoFar[z - 1]
      BY <1>13, <2>3, <3>1
    <3>4. w + (SoFar[z + 1] - SoFar[z]) + (SoFar[z + 2] - SoFar[z + 1]) + (SoFar[z + 3] - SoFar[z + 2])
          = SoFar[z + 3] - SoFar[z - 1]
      BY <1>1, <1>21, <2>3, <3>2 DEF w
    <3> QED
      BY <3>1, <3>3, <3>4
  <2> QED
    BY <1>1, <2>1, <2>2, <2>3
<1>23. {i \in Concept : facts[i].end = e /\ facts[i].form \in AnnualForms} = {}
  <2> SUFFICES ASSUME NEW i \in Concept, facts[i].end = e, facts[i].form \in AnnualForms PROVE FALSE
    OBVIOUS
  <2>1. FactSound(facts[i])
    BY <1>1, ConceptIs DEF FactsIInv, FactsSound
  <2> QED
    BY <1>2, <2>1 DEF FactSound, AnnualForms
<1> QED
  BY <1>19, <1>22, <1>23 DEF Ttm, Total

-----------------------------------------------------------------------------
(***************************************************************************)
(* The figures of the newest period and the one a year before.             *)
(***************************************************************************)

\* Of a year's end the 10-K says the twelve months.
LEMMA YearEndSum ==
    ASSUME FactsIInv, NEW e \in Ends(Concept), IsYearEnd(e), AsFiled(Year(e))
    PROVE  Ttm(e) = {Total(e - 4, e)}
<1> DEFINE annual == {i \in Concept : facts[i].end = e /\ facts[i].form \in AnnualForms}
<1>1. Concept \subseteq DOMAIN facts
  BY ConceptIs DEF FactsIInv
<1>2. annual \in SUBSET DOMAIN facts /\ annual # {}
  <2>1. PICK i : Takes(e, i)
    BY TakesOne
  <2>2. i \in Concept /\ facts[i].end = e /\ facts[i] \in Fact /\ facts[i].form # "10-Q"
    BY <2>1, TakenIs DEF Takes
  <2>3. i \in annual
    BY <2>2 DEF Fact, Forms
  <2> QED
    BY <1>1, <2>3
<1>3. PICK i \in annual : Latest(annual) = facts[i]
  <2> HIDE DEF annual
  <2> QED
    BY <1>2, LatestIs
<1>4. facts[i].value = SoFar[e] - SoFar[e - 4]
  <2>1. i \in Concept /\ facts[i].end = e /\ facts[i].form # "10-Q"
    BY DEF AnnualForms
  <2> QED
    BY <2>1, YearEndFact
<1> QED
  BY <1>2, <1>3, <1>4 DEF Ttm, Total

\* A period has at most a row more than the one before.
LEMMA RowsGrowByOne ==
    ASSUME FactsIInv, NEW x \in 1 .. LastQuarter
    PROVE  /\ Len(Quarters[x]) \in Nat /\ Len(Quarters[x - 1]) \in Nat
           /\ Len(Quarters[x]) <= Len(Quarters[x - 1]) + 1
<1> DEFINE out == Quarters[x - 1]
<1>1. /\ out \in Seq(Row) /\ Len(out) \in Nat
      /\ Quarters[x] = IF x \in Ends(Concept) THEN AddQuarter(OnePerEnd, out, x) ELSE out
  <2>1. x - 1 \in 0 .. LastQuarter
    OBVIOUS
  <2>2. out \in Seq(Row)
    BY <2>1, QuartersAre
  <2>3. Quarters[x] = IF x \in Ends(Concept) THEN AddQuarter(OnePerEnd, out, x) ELSE out
    BY QuartersAre
  <2> HIDE DEF out
  <2> QED
    BY <2>2, <2>3
<1> HIDE DEF out
<1>2. CASE Quarters[x] = out
  BY <1>1, <1>2 DEF out
<1>3. CASE Quarters[x] # out
  <2>1. x \in Ends(Concept) /\ Quarters[x] = AddQuarter(OnePerEnd, out, x)
    BY <1>1, <1>3
  <2>2. PICK v \in Int : AddQuarter(OnePerEnd, out, x) = Append(out, [end |-> x, value |-> v])
    <3>1. /\ FactsTypeOK /\ Ends(Concept) \in SUBSET (1 .. LastQuarter)
          /\ OnePerEnd \in [Ends(Concept) -> Fact]
      BY ChosenType DEF FactsIInv
    <3>2. \/ AddQuarter(OnePerEnd, out, x) = out /\ OnePerEnd[x].form # "10-Q"
          \/ \E v \in Int : AddQuarter(OnePerEnd, out, x) = Append(out, [end |-> x, value |-> v])
      BY <1>1, <2>1, <3>1, AddQuarterType, Zenon
    <3> QED
      BY <1>3, <2>1, <3>2
  <2>3. RowAdded(out, x, v, Quarters[x])
    <3>1. AddsRow(out, x, v, Quarters[x])
      BY <2>1, <2>2 DEF AddsRow
    <3> QED
      BY <1>1, <3>1, OneMoreRow
  <2> QED
    BY <1>1, <2>3 DEF RowAdded, out
<1> QED
  BY <1>2, <1>3

\* A record that begins with the last quarter of a year has three quarters of it
\* only, from the next year's 10-Qs, and so no twelve months.
LEMMA ThreeQuartersOnly ==
    ASSUME FactsIInv, NEW e, first = YearStart(e) + 4, e = first - 1, ~IsYearEnd(e)
    PROVE  Ttm(e) = {}
<1> DEFINE z == YearStart(e)
<1>1. /\ FactsTypeOK /\ FactsSound
      /\ first \in 5 .. LastQuarter /\ e \in 4 .. LastQuarter /\ z \in Nat /\ e = z + 3 /\ first = z + 4
      /\ z = 4 * Year(e) /\ Year(e) \in Nat
  <2>1. FactsTypeOK /\ FactsSound /\ first \in 5 .. LastQuarter
    BY DEF FactsIInv, FactsTypeOK
  <2>2. e \in Nat \ {0}
    BY <2>1
  <2>3. z \in Nat /\ z = 4 * Year(e) /\ Year(e) \in Nat
    BY <2>2, QuarterYear
  <2> HIDE DEF z
  <2>4. first = z + 4
    BY DEF z
  <2> QED
    BY <2>1, <2>3, <2>4
<1> HIDE DEF z
<1>2. \A x \in Ends(Concept) : x <= z => IsYearEnd(x)
  <2> SUFFICES ASSUME NEW x \in Ends(Concept), x <= z, ~IsYearEnd(x) PROVE FALSE
    OBVIOUS
  <2>1. /\ x \in 1 .. LastQuarter /\ OnePerEnd[x].end = x /\ FactSound(OnePerEnd[x])
        /\ OnePerEnd[x].form = "10-Q"
    BY TakenIs
  <2>2. first <= x + 4
    <3>1. FiledFor(OnePerEnd[x]) \in {x, x + 4} /\ first <= FiledFor(OnePerEnd[x])
      BY <2>1 DEF FactSound
    <3> QED
      BY <1>1, <2>1, <3>1
  <2>3. x = z
    BY <1>1, <2>1, <2>2
  <2>4. \A y \in Nat : (4 * y) % 4 = 0
    OBVIOUS
  <2>5. x % 4 = 0
    BY <1>1, <2>3, <2>4
  <2> QED
    BY <2>5 DEF IsYearEnd
<1> DEFINE G == {x \in 0 .. LastQuarter : x <= z => Quarters[x] = <<>>}
<1>3. 0 \in G
  BY <1>1, QuartersAre
<1>4. ASSUME NEW x \in 1 .. LastQuarter, x - 1 \in G PROVE x \in G
  <2> SUFFICES ASSUME x <= z PROVE Quarters[x] = <<>>
    OBVIOUS
  <2>1. Quarters[x - 1] = <<>>
    BY <1>1, <1>4
  <2>2. CASE x \in Ends(Concept)
    <3>1. Quarters[x] = IF Len(Quarters[x - 1]) < 3 THEN Quarters[x - 1]
                        ELSE Append(Quarters[x - 1],
                                    [end |-> x, value |-> OnePerEnd[x].value - LastThree(Quarters[x - 1])])
      BY <1>2, <2>2, YearEndRow
    <3>2. Len(Quarters[x - 1]) < 3
      BY <2>1
    <3> QED
      BY <2>1, <3>1, <3>2
  <2>3. CASE x \notin Ends(Concept)
    BY <2>1, <2>3, QuartersAre
  <2> QED
    BY <2>2, <2>3
<1> HIDE DEF G
<1>5. Quarters[z] = <<>>
  <2>1. LastQuarter \in Nat /\ z \in 0 .. LastQuarter
    BY <1>1
  <2>2. z \in G
    BY <1>3, <1>4, <2>1, UpFromZero
  <2> QED
    BY <1>1, <2>2 DEF G
<1>6. Len(Quarters[e]) \in Nat /\ Len(Quarters[e]) <= 3
  <2>1. /\ z + 1 \in 1 .. LastQuarter /\ z + 2 \in 1 .. LastQuarter /\ z + 3 \in 1 .. LastQuarter
        /\ (z + 1) - 1 = z /\ (z + 2) - 1 = z + 1 /\ (z + 3) - 1 = z + 2
    BY <1>1
  <2>2. Len(Quarters[z]) = 0
    BY <1>5
  <2>3. Len(Quarters[z + 1]) \in Nat /\ Len(Quarters[z + 1]) <= Len(Quarters[z]) + 1
    BY <2>1, RowsGrowByOne
  <2>4. Len(Quarters[z + 2]) \in Nat /\ Len(Quarters[z + 2]) <= Len(Quarters[z + 1]) + 1
    BY <2>1, RowsGrowByOne
  <2>5. Len(Quarters[z + 3]) \in Nat /\ Len(Quarters[z + 3]) <= Len(Quarters[z + 2]) + 1
    BY <2>1, RowsGrowByOne
  <2>6. Quarters[e] = Quarters[z + 3]
    BY <1>1
  <2> DEFINE a == Len(Quarters[z + 1])
             b == Len(Quarters[z + 2])
             c == Len(Quarters[z + 3])
  <2>7. a \in Nat /\ b \in Nat /\ c \in Nat /\ a <= 0 + 1 /\ b <= a + 1 /\ c <= b + 1
    BY <2>2, <2>3, <2>4, <2>5
  <2> HIDE DEF a, b, c
  <2>8. c \in Nat /\ c <= 3
    BY <2>7
  <2> QED
    BY <2>6, <2>8 DEF c
<1>7. {i \in Concept : facts[i].end = e /\ facts[i].form \in AnnualForms} = {}
  <2> SUFFICES ASSUME NEW i \in Concept, facts[i].end = e, facts[i].form \in AnnualForms PROVE FALSE
    OBVIOUS
  <2>1. FactSound(facts[i])
    BY <1>1, ConceptIs DEF FactsSound
  <2> QED
    BY <2>1 DEF FactSound, AnnualForms
<1> QED
  BY <1>6, <1>7 DEF Ttm

\* The figure of the newest period or the fourth before it.
LEMMA FigureIs ==
    ASSUME FactsIInv, quarter >= first + 4, NEW e \in Ends(Concept), quarter - 1 \in {e, e + 4}, WholeYears(e)
    PROVE  TwelveMonths(e)
<1> SUFFICES ASSUME AsFiled(Year(e)), AsFiled(Year(e) - 1), NEW v \in Ttm(e) PROVE v = Total(e - 4, e)
  BY DEF TwelveMonths, AsFiled
<1>1. CASE IsYearEnd(e)
  BY <1>1, YearEndSum
<1>2. CASE ~IsYearEnd(e) /\ first <= YearStart(e) + 1
  <2>1. e \in Nat \ {0}
    BY TakenIs
  <2>2. Covered(e)
    BY <1>2, <2>1 DEF Covered
  <2> QED
    BY <2>2, CoveredSum
<1>3. CASE ~IsYearEnd(e) /\ ~(first <= YearStart(e) + 1)
  <2> DEFINE z == YearStart(e)
  <2>1. /\ e \in Nat \ {0} /\ first \in 5 .. LastQuarter /\ quarter \in first .. LastQuarter + 1
    BY TakenIs DEF FactsIInv, FactsTypeOK
  <2>2. z \in Nat /\ z < e /\ e <= z + 4 /\ e # z + 4 /\ z = 4 * Year(e) /\ Year(e) \in Nat
    BY <1>3, <2>1, QuarterYear
  <2>7. ~(first <= z + 1)
    BY <1>3
  <2> HIDE DEF z
  <2>3. e >= first - 1 /\ first > z + 1
    BY <2>1, <2>2, <2>7
  <2>4. first \in z + 2 .. z + 4
    BY <2>1, <2>2, <2>3
  <2>5. first = z + 4
    <3> SUFFICES ASSUME first \in z + 2 .. z + 3 PROVE FALSE
      BY <2>2, <2>4
    <3>1. first % 4 \in {2, 3} /\ Year(first) = Year(e)
      BY <2>1, <2>2 DEF Year
    <3> QED
      BY <1>3, <2>2, <3>1 DEF WholeYears
  <2>6. e = first - 1
    BY <2>1, <2>2, <2>3, <2>5
  <2> QED
    BY <1>3, <2>5, <2>6, ThreeQuartersOnly DEF z
<1> QED
  BY <1>1, <1>2, <1>3

\* The growth of the newest period is measured against the fourth quarter before it.
LEMMA PriorYearIs ==
    ASSUME FactsIInv, quarter >= first + 4, NEW n, n = quarter - 1
    PROVE  PriorYear(n) \subseteq {n - 4}
<1> DEFINE between(d) == {c \in Ends(Concept) : d < c /\ c <= n}
<1>1. first \in 5 .. LastQuarter /\ quarter \in first .. LastQuarter + 1
  BY DEF FactsIInv, FactsTypeOK
<1>2. /\ Ends(Concept) \in SUBSET (1 .. LastQuarter)
      /\ \A e \in first - 4 .. n : e \in Ends(Concept)
  BY EndsAre
<1> SUFFICES ASSUME NEW d \in Ends(Concept), Cardinality(between(d)) = 4 PROVE d = n - 4
  BY DEF PriorYear
<1>3. d \in 1 .. LastQuarter /\ n \in 8 .. LastQuarter /\ first - 4 <= n - 7
  BY <1>1, <1>2
<1>4. between(d) \in SUBSET (d + 1 .. n)
  BY <1>2, <1>3
<1>5. CASE d > n - 4
  <2>1. IsFiniteSet(d + 1 .. n) /\ Cardinality(d + 1 .. n) = IF d + 1 > n THEN 0 ELSE n - (d + 1) + 1
    <3>1. d + 1 \in Int /\ n \in Int
      BY <1>3
    <3> QED
      BY <3>1, FS_Interval
  <2>2. Cardinality(between(d)) <= Cardinality(d + 1 .. n)
    BY <1>4, <2>1, FS_Subset
  <2>3. Cardinality(d + 1 .. n) <= 3
    <3>1. CASE d + 1 > n
      BY <2>1, <3>1
    <3>2. CASE ~(d + 1 > n)
      <4>1. Cardinality(d + 1 .. n) = n - (d + 1) + 1
        BY <2>1, <3>2
      <4>2. n - (d + 1) + 1 <= 3
        BY <1>3, <1>5
      <4> QED
        BY <4>1, <4>2
    <3> QED
      BY <3>1, <3>2
  <2>4. Cardinality(d + 1 .. n) \in Int
    BY <1>3, <2>1
  <2> DEFINE c == Cardinality(d + 1 .. n)
  <2>5. 4 <= c /\ c <= 3 /\ c \in Int
    BY <2>2, <2>3, <2>4
  <2> HIDE DEF c
  <2> QED
    BY <2>5
<1>6. CASE d < n - 4
  <2>1. IsFiniteSet(n - 4 .. n) /\ Cardinality(n - 4 .. n) = 5
    <3>1. n - 4 \in Int /\ n \in Int /\ ~(n - 4 > n) /\ n - (n - 4) + 1 = 5
      BY <1>3
    <3> QED
      BY <3>1, FS_Interval
  <2>2. n - 4 .. n \in SUBSET between(d)
    <3> SUFFICES ASSUME NEW c \in n - 4 .. n PROVE c \in Ends(Concept) /\ d < c /\ c <= n
      OBVIOUS
    <3>1. c \in first - 4 .. n /\ d < c /\ c <= n
      BY <1>1, <1>3, <1>6
    <3> QED
      BY <1>2, <3>1
  <2>3. IsFiniteSet(between(d))
    <3>1. IsFiniteSet(d + 1 .. n)
      BY <1>3, FS_Interval
    <3> QED
      BY <1>4, <3>1, FS_Subset
  <2>4. Cardinality(n - 4 .. n) <= Cardinality(between(d))
    BY <2>2, <2>3, FS_Subset
  <2> QED
    BY <2>1, <2>4
<1> QED
  BY <1>3, <1>5, <1>6

\* So the invariant says what was to be shown.
LEMMA NewestIs == FactsIInv => NewestIsTwelveMonths
<1> SUFFICES ASSUME FactsIInv, quarter >= first + 4
             PROVE  LET newest == Max(Ends(Concept))
                    IN  /\ WholeYears(newest) => TwelveMonths(newest)
                        /\ PriorYear(newest) \subseteq {newest - 4}
                        /\ \A e \in PriorYear(newest) : WholeYears(e) => TwelveMonths(e)
  BY DEF NewestIsTwelveMonths
<1> DEFINE n == Max(Ends(Concept))
<1>1. n = quarter - 1 /\ n \in Ends(Concept) /\ n \in Nat
  <2>1. first \in 5 .. LastQuarter /\ quarter \in first .. LastQuarter + 1
    BY DEF FactsIInv, FactsTypeOK
  <2>2. /\ Ends(Concept) \in SUBSET (1 .. LastQuarter)
        /\ quarter - 1 \in Ends(Concept) /\ \A e \in Ends(Concept) : e <= quarter - 1
    BY <2>1, EndsAre
  <2>3. LastQuarter \in Nat
    OBVIOUS
  <2>4. n \in Ends(Concept) /\ \A e \in Ends(Concept) : e <= n
    BY <2>2, <2>3, GreatestIs
  <2> HIDE DEF n
  <2>5. n <= quarter - 1 /\ quarter - 1 <= n /\ n \in Nat
    BY <2>2, <2>4
  <2> QED
    BY <2>1, <2>4, <2>5
<1> HIDE DEF n
<1>2. WholeYears(n) => TwelveMonths(n)
  BY <1>1, FigureIs
<1>3. PriorYear(n) \subseteq {n - 4}
  BY <1>1, PriorYearIs
<1>4. ASSUME NEW e \in PriorYear(n), WholeYears(e) PROVE TwelveMonths(e)
  <2>1. e = n - 4 /\ e \in Ends(Concept)
    BY <1>3 DEF PriorYear
  <2>2. quarter - 1 = e + 4
    BY <1>1, <2>1
  <2> QED
    BY <1>4, <2>1, <2>2, FigureIs
<1> QED
  BY <1>2, <1>3, <1>4 DEF n

\* Once a year of filings is there, the newest period's figure is the flow of its
\* four quarters and its growth is measured against the four quarters before
\* them, whatever the filings' style, tags, comparatives and amendments, if the
\* company's record does not begin within either year.
THEOREM NewestFigures == FactsSpec => []NewestIsTwelveMonths
<1>1. FactsInit => FactsIInv
  BY FactsInitIInv
<1>2. FactsIInv /\ [FactsNext]_factsVars => FactsIInv'
  BY FactsStepIInv
<1>3. FactsIInv => NewestIsTwelveMonths
  BY NewestIs
<1> QED
  BY <1>1, <1>2, <1>3, PTL DEF FactsSpec

=============================================================================
