--------------------------- MODULE MCDailyReports ---------------------------
EXTENDS DailyReports, TLC

\* The briefing covers today, the digest yesterday too.
MCWindow == ("briefing" :> 1) @@ ("digest" :> 2)

=============================================================================
