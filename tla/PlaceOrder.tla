----------------------------- MODULE PlaceOrder -----------------------------
(***************************************************************************)
(* Preview, confirm, submit: application/execution/place_order.py driven   *)
(* by scripts/place_order.py.                                              *)
(*                                                                         *)
(* submit() is not given the preview the operator confirmed: it runs       *)
(* preview() again, on a new quote and a new buying power, and places what *)
(* that returns.  Each of its broker calls is an await, so prices, buying  *)
(* power and the other operators move between any two of them.             *)
(***************************************************************************)
EXTENDS Naturals, FiniteSets

CONSTANTS
    Operators,      \* each runs the script, one attempt after another
    Commands,       \* [buys : BOOLEAN, by : {"shares", "usd"}, amount : Nat, whole : BOOLEAN]
    Prices,         \* last prices of the symbol
    Powers,         \* buying powers the account can have
    MaxAttempts,    \* bound on the times each operator runs the script
    MaxMoves        \* bound on moves of the price and of the buying power

ASSUME OrderAssumption ==
    /\ Commands \subseteq [buys : BOOLEAN, by : {"shares", "usd"},
                           amount : Nat \ {0}, whole : BOOLEAN]
    /\ Commands # {}
    /\ Prices \subseteq Nat \ {0}
    /\ Powers \subseteq Nat
    /\ MaxAttempts \in [Operators -> Nat]
    /\ MaxMoves \in Nat

VARIABLES
    price, power,   \* at the broker: the symbol's last price, the buying power
    orders,         \* at the broker: the orders placed, [id, run, attempt, qty]
    pc, cmd, attempt,
    stage,          \* "preview", or "submit" once the operator has confirmed
    seen,           \* the quantity and price of the preview() under way
    shown,          \* the quantity on the preview the operator confirms
    records,        \* AuditRecords built, [id, qty]
    confirmed,      \* history: the <<run, attempt>> the operator answered yes to
    repriced,       \* history: the price has moved since the preview's quote
    stale,          \* history: what submit() read has moved since it read it
    moves

market == <<price, power, moves>>
orderVars == <<market, orders, pc, cmd, attempt, stage, seen, shown, records,
          confirmed, repriced, stale>>

-----------------------------------------------------------------------------

Ended == {"idle", "ordered", "declined", "refused", "failed"}
OrderSteps == {"quoting", "checking", "asking", "confirming", "placing", "recording"}
Placement == [id : Nat, run : Operators, attempt : Nat, qty : Nat]
Nothing == [qty |-> 0, ref |-> 0]

OrderTypeOK ==
    /\ price \in Prices /\ power \in Powers
    /\ orders \subseteq Placement
    /\ pc \in [Operators -> Ended \cup OrderSteps]
    /\ cmd \in [Operators -> Commands]
    /\ attempt \in [Operators -> Nat]
    /\ stage \in [Operators -> {"preview", "submit"}]
    /\ seen \in [Operators -> [qty : Nat, ref : Prices \cup {0}]]
    /\ shown \in [Operators -> Nat]
    /\ records \subseteq [id : Nat, qty : Nat]
    /\ confirmed \subseteq Operators \X Nat
    /\ repriced \in [Operators -> BOOLEAN]
    /\ stale \in [Operators -> BOOLEAN]
    /\ moves \in 0 .. MaxMoves
    \* a placed or confirmed quantity is a whole number of shares, at least one
    /\ \A o \in orders : o.qty >= 1
    /\ \A r \in Operators : pc[r] = "confirming" => shown[r] >= 1

OrderInit ==
    /\ price \in Prices /\ power \in Powers
    /\ orders = {} /\ records = {} /\ confirmed = {}
    /\ pc = [r \in Operators |-> "idle"]
    /\ cmd = [r \in Operators |-> CHOOSE c \in Commands : TRUE]
    /\ attempt = [r \in Operators |-> 0]
    /\ stage = [r \in Operators |-> "preview"]
    /\ seen = [r \in Operators |-> Nothing]
    /\ shown = [r \in Operators |-> 0]
    /\ repriced = [r \in Operators |-> FALSE]
    /\ stale = [r \in Operators |-> FALSE]
    /\ moves = 0

-----------------------------------------------------------------------------
(* The market moves on its own; so does the account, which other orders,   *)
(* fills and transfers change.                                             *)

\* The operators whose submit() has already read the price, the buying power.
Requoted == {r \in Operators : stage[r] = "submit" /\ pc[r] \in {"checking", "asking", "placing"}}
Rechecked == {r \in Requoted : pc[r] \in {"asking", "placing"}}
Mark(flags, S) == [r \in Operators |-> flags[r] \/ r \in S]

MovePrice ==
    /\ moves < MaxMoves
    /\ moves' = moves + 1
    /\ price' \in Prices \ {price}
    /\ repriced' = Mark(repriced, Operators)
    /\ stale' = Mark(stale, Requoted)
    /\ UNCHANGED <<power, orders, pc, cmd, attempt, stage, seen, shown, records, confirmed>>

MovePower ==
    /\ moves < MaxMoves
    /\ moves' = moves + 1
    /\ power' \in Powers \ {power}
    /\ stale' = Mark(stale, Rechecked)
    /\ UNCHANGED <<price, orders, pc, cmd, attempt, stage, seen, shown, records,
                   confirmed, repriced>>

-----------------------------------------------------------------------------
(* The script.                                                             *)

\* The operator runs the script: a new command, or the same one again after a
\* failure (the script keeps nothing from one run to the next).
Start(r) ==
    /\ pc[r] \in Ended
    /\ attempt[r] < MaxAttempts[r]
    /\ attempt' = [attempt EXCEPT ![r] = @ + 1]
    /\ \E c \in Commands : cmd' = [cmd EXCEPT ![r] = c]
    /\ stage' = [stage EXCEPT ![r] = "preview"]
    /\ pc' = [pc EXCEPT ![r] = "quoting"]
    /\ shown' = [shown EXCEPT ![r] = 0]
    /\ seen' = [seen EXCEPT ![r] = Nothing]
    /\ UNCHANGED <<market, orders, records, confirmed, repriced, stale>>

\* _resolve_quantity: as given, or what the dollars buy, rounded down.
ShareCount(c, p) == IF c.by = "shares" THEN c.amount ELSE c.amount \div p

\* OrderValidationError ends the first preview() in the script's exit code 2,
\* and the one inside submit() in a traceback.
Invalid(r) == pc' = [pc EXCEPT ![r] = IF stage[r] = "preview" THEN "refused" ELSE "failed"]

Quote(r) ==
    /\ pc[r] = "quoting"
    /\ LET qty == ShareCount(cmd[r], price)
       IN  IF cmd[r].whole /\ qty >= 1
           THEN /\ seen' = [seen EXCEPT ![r] = [qty |-> qty, ref |-> price]]
                /\ pc' = [pc EXCEPT ![r] = "checking"]
                /\ repriced' = [repriced EXCEPT ![r] = @ /\ stage[r] = "submit"]
                /\ stale' = [stale EXCEPT ![r] = FALSE]
           ELSE Invalid(r) /\ UNCHANGED <<seen, repriced, stale>>
    /\ UNCHANGED <<market, orders, cmd, attempt, stage, shown, records, confirmed>>

\* Faulty variant: an order is scaled down to the buying power there is.
CheckPowerClamps(r) ==
    /\ pc[r] = "checking"
    /\ LET affords == power \div seen[r].ref
       IN  IF cmd[r].buys /\ affords = 0
           THEN Invalid(r) /\ UNCHANGED seen
           ELSE /\ seen' = IF cmd[r].buys /\ affords < seen[r].qty
                           THEN [seen EXCEPT ![r].qty = affords] ELSE seen
                /\ pc' = [pc EXCEPT ![r] = "asking"]
    /\ UNCHANGED <<market, orders, cmd, attempt, stage, shown, records,
                   confirmed, repriced, stale>>

\* Faulty variant: only the first preview() checks the buying power.
CheckPowerOnce(r) ==
    /\ pc[r] = "checking"
    /\ IF stage[r] = "preview" /\ cmd[r].buys /\ seen[r].qty * seen[r].ref > power
       THEN Invalid(r)
       ELSE pc' = [pc EXCEPT ![r] = "asking"]
    /\ UNCHANGED <<market, orders, cmd, attempt, stage, seen, shown, records,
                   confirmed, repriced, stale>>

CheckPower(r) ==
    /\ pc[r] = "checking"
    /\ IF cmd[r].buys /\ seen[r].qty * seen[r].ref > power
       THEN Invalid(r)
       ELSE pc' = [pc EXCEPT ![r] = "asking"]
    /\ UNCHANGED <<market, orders, cmd, attempt, stage, seen, shown, records,
                   confirmed, repriced, stale>>

\* The broker's preview endpoint accepts: the first time the operator is shown
\* the result, the second time submit() goes on to place it.
AskBroker(r) ==
    /\ pc[r] = "asking"
    /\ IF stage[r] = "preview"
       THEN /\ pc' = [pc EXCEPT ![r] = "confirming"]
            /\ shown' = [shown EXCEPT ![r] = seen[r].qty]
       ELSE pc' = [pc EXCEPT ![r] = "placing"] /\ UNCHANGED shown
    /\ UNCHANGED <<market, orders, cmd, attempt, stage, seen, records,
                   confirmed, repriced, stale>>

Confirm(r) ==
    /\ pc[r] = "confirming"
    /\ confirmed' = confirmed \cup {<<r, attempt[r]>>}
    /\ stage' = [stage EXCEPT ![r] = "submit"]
    /\ pc' = [pc EXCEPT ![r] = "quoting"]
    /\ UNCHANGED <<market, orders, cmd, attempt, seen, shown, records, repriced, stale>>

\* Any answer but yes, or no input.
Decline(r) ==
    /\ pc[r] = "confirming"
    /\ pc' = [pc EXCEPT ![r] = "declined"]
    /\ UNCHANGED <<market, orders, cmd, attempt, stage, seen, shown, records,
                   confirmed, repriced, stale>>

\* The broker takes the order.  Its answer brings the order id, or is lost or
\* has no Location header, which raises out of the script.
Order(r) == [id |-> Cardinality(orders) + 1, run |-> r, attempt |-> attempt[r],
             qty |-> seen[r].qty]
Taken(r) ==
    /\ orders' = orders \cup {Order(r)}
    /\ power' \in Powers        \* the broker reserves what it reserves
    /\ stale' = IF power' = power THEN stale ELSE Mark(stale, Rechecked \ {r})

\* Faulty variant: when no answer comes, submit() starts over.
PlaceAgain(r) ==
    /\ pc[r] = "placing"
    /\ Taken(r)
    /\ \E next \in {"recording", "quoting"} : pc' = [pc EXCEPT ![r] = next]
    /\ UNCHANGED <<price, moves, cmd, attempt, stage, seen, shown, records, confirmed, repriced>>

\* What is placed is what submit()'s own preview() returned, not what was shown.
Place(r) ==
    /\ pc[r] = "placing"
    /\ Taken(r)
    /\ \E next \in {"recording", "failed"} : pc' = [pc EXCEPT ![r] = next]
    /\ UNCHANGED <<price, moves, cmd, attempt, stage, seen, shown, records, confirmed, repriced>>

\* A broker call raises, or its request never arrives: nothing is ordered.
CallFails(r) ==
    /\ pc[r] \in {"quoting", "checking", "asking", "placing"}
    /\ pc' = [pc EXCEPT ![r] = "failed"]
    /\ UNCHANGED <<market, orders, cmd, attempt, stage, seen, shown, records,
                   confirmed, repriced, stale>>

\* make_audit_record is given the preview the operator saw, not submit()'s.
\* The record is printed; nothing stores it.
Record(r) ==
    /\ pc[r] = "recording"
    /\ \E o \in orders :
         /\ o.run = r /\ o.attempt = attempt[r]
         /\ records' = records \cup {[id |-> o.id, qty |-> shown[r]]}
    /\ pc' = [pc EXCEPT ![r] = "ordered"]
    /\ UNCHANGED <<market, orders, cmd, attempt, stage, seen, shown, confirmed,
                   repriced, stale>>

-----------------------------------------------------------------------------

OrderNext ==
    \/ MovePrice \/ MovePower
    \/ \E r \in Operators :
         \/ Start(r) \/ Quote(r) \/ CheckPower(r) \/ AskBroker(r)
         \/ Confirm(r) \/ Decline(r) \/ Place(r) \/ CallFails(r) \/ Record(r)

OrderSpec == OrderInit /\ [][OrderNext]_orderVars

-----------------------------------------------------------------------------

\* No call both previews and places, and a failure never places twice: every
\* order belongs to an attempt its operator confirmed, and no confirmation has
\* bought more than one order.
OneOrderPerConfirmation ==
    /\ \A o \in orders : <<o.run, o.attempt>> \in confirmed
    /\ \A o, p \in orders : o.run = p.run /\ o.attempt = p.attempt => o = p

\* The operator gets what the confirmed preview showed: the quantity placed
\* differs from it only for an order in dollars whose price has moved since.
PlacedAsShown ==
    [][\A o \in orders' \ orders :
         o.qty = shown[o.run] \/ (cmd[o.run].by = "usd" /\ repriced[o.run])]_orderVars

\* Re-validation narrows the race to submit() itself: a buy that costs more
\* than the account has when it is placed is one whose price or buying power
\* moved after submit() read it, however long the operator took to confirm.
OverspendsOnlyInARace ==
    [][\A o \in orders' \ orders :
         cmd[o.run].buys => o.qty * price <= power \/ stale[o.run]]_orderVars

\* "Every submission is audited": once an attempt is over, each order it placed
\* has a record of the quantity ordered (counting as recorded what the script
\* only prints).
SubmissionsAudited ==
    \A o \in orders :
        (attempt[o.run] > o.attempt \/ pc[o.run] \in Ended)
            => [id |-> o.id, qty |-> o.qty] \in records

=============================================================================
