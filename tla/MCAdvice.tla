------------------------------ MODULE MCAdvice ------------------------------
(***************************************************************************)
(* Advice and what it leads to, for TLC: the recommendation ledger, the    *)
(* advisor council, the company facts it reads, and the orders the owner   *)
(* places.  The components share no variable, so a behaviour is a scene of *)
(* one of them and the others stay in a fixed initial state.               *)
(***************************************************************************)
EXTENDS MCRecommendationLedger, AdvisorCouncil, MCCompanyFacts, MCPlaceOrder

VARIABLE scene

-----------------------------------------------------------------------------

\* What stays in its initial state has the types of that state.
AdviceTypeOK ==
    CASE scene = "ledger"  -> TypeOK
      [] scene = "council" -> CouncilTypeOK
      [] scene = "facts"   -> FactsTypeOK
      [] scene = "order"   -> OrderTypeOK

AdviceInit ==
    /\ scene \in {"ledger", "council", "facts", "order"}
    /\ Init
    /\ CouncilInit
    /\ FactsInit /\ (scene # "facts" => first = 5 /\ style = "ytd" /\ tag = 1)
    /\ OrderInit /\ (scene # "order" => price = 2 /\ power = 6)

AdviceNext ==
    \/ scene = "ledger"  /\ Next        /\ UNCHANGED <<councilVars, factsVars, orderVars, scene>>
    \/ scene = "council" /\ CouncilNext /\ UNCHANGED <<vars, factsVars, orderVars, scene>>
    \/ scene = "facts"   /\ FactsNext   /\ UNCHANGED <<vars, councilVars, orderVars, scene>>
    \/ scene = "order"   /\ OrderNext   /\ UNCHANGED <<vars, councilVars, factsVars, scene>>

AdviceSpec == AdviceInit /\ [][AdviceNext]_<<vars, councilVars, factsVars, orderVars, scene>>

=============================================================================
