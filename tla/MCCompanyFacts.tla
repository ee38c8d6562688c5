--------------------------- MODULE MCCompanyFacts ---------------------------
EXTENDS CompanyFacts

\* No two sums of flows are equal.
MCFlow(q) == 3 ^ q

=============================================================================
