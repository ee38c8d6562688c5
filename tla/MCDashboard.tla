---------------------------- MODULE MCDashboard ----------------------------
(***************************************************************************)
(* What the owner is shown, for TLC: position refreshes and the unit of    *)
(* work they commit through, live prices, the daily reports, the body of   *)
(* their push, the digest chat, disclosures beside the portfolio, and the  *)
(* watchdogs.  The components share no variable, so a behaviour is a scene *)
(* of one of them and the others stay in a fixed initial state.            *)
(***************************************************************************)
EXTENDS RefreshPositions, UnitOfWork, LivePrices, MCDailyReports, PushBody, ChatLimiter,
        DisclosureViews, MCWatchdogs

VARIABLE scene

-----------------------------------------------------------------------------

Scenes == {"refresh", "unit", "prices", "reports", "push", "chat", "views", "watch"}

\* What stays in its initial state has the types of that state.
DashboardTypeOK ==
    CASE scene = "refresh" -> TypeOK
      [] scene = "unit"    -> UnitTypeOK
      [] scene = "prices"  -> PriceTypeOK
      [] scene = "reports" -> ReportTypeOK
      [] scene = "push"    -> PushTypeOK
      [] scene = "chat"    -> ChatTypeOK
      [] scene = "views"   -> ViewTypeOK
      [] scene = "watch"   -> WatchTypeOK

\* Nothing held, at the lowest prices.
FixedPrices ==
    /\ ~paper /\ shares = NoShares
    /\ \A s \in Instruments, p \in PriceLevels : mark[s] <= p /\ close[s] <= p

DashboardInit ==
    /\ scene \in Scenes
    /\ Init /\ (scene # "refresh" => broker = Nothing)
    /\ UnitInit
    /\ PriceInit /\ (scene # "prices" => FixedPrices)
    /\ ReportInit
    /\ PushInit /\ (scene # "push" => markdown = <<>>)
    /\ ChatInit
    /\ ViewInit /\ (scene # "views" => holdings = {})
    /\ WatchInit /\ (scene # "watch" => newest = Never /\ tokenEnds = 0)

DashboardNext ==
    /\ \/ scene = "refresh" /\ Next
          /\ UNCHANGED <<unitVars, priceVars, reportVars, pushVars, chatVars, viewVars, watchVars>>
       \/ scene = "unit" /\ UnitNext
          /\ UNCHANGED <<vars, priceVars, reportVars, pushVars, chatVars, viewVars, watchVars>>
       \/ scene = "prices" /\ PriceNext
          /\ UNCHANGED <<vars, unitVars, reportVars, pushVars, chatVars, viewVars, watchVars>>
       \/ scene = "reports" /\ ReportNext
          /\ UNCHANGED <<vars, unitVars, priceVars, pushVars, chatVars, viewVars, watchVars>>
       \/ scene = "push" /\ PushNext
          /\ UNCHANGED <<vars, unitVars, priceVars, reportVars, chatVars, viewVars, watchVars>>
       \/ scene = "chat" /\ ChatNext
          /\ UNCHANGED <<vars, unitVars, priceVars, reportVars, pushVars, viewVars, watchVars>>
       \/ scene = "views" /\ ViewNext
          /\ UNCHANGED <<vars, unitVars, priceVars, reportVars, pushVars, chatVars, watchVars>>
       \/ scene = "watch" /\ WatchNext
          /\ UNCHANGED <<vars, unitVars, priceVars, reportVars, pushVars, chatVars, viewVars>>
    /\ UNCHANGED scene

DashboardSpec ==
    DashboardInit /\ [][DashboardNext]_<<vars, unitVars, priceVars, reportVars, pushVars,
                                         chatVars, viewVars, watchVars, scene>>

=============================================================================
