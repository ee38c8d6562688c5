---------------------------- MODULE MCPlaceOrder ----------------------------
EXTENDS PlaceOrder, TLC

\* Two shares, six dollars (three shares at 2, two at 3), a dollar (no share), a
\* fraction of a share, and a sale.
MCCommands ==
    { [buys |-> TRUE,  by |-> "shares", amount |-> 2, whole |-> TRUE],
      [buys |-> TRUE,  by |-> "usd",    amount |-> 6, whole |-> TRUE],
      [buys |-> TRUE,  by |-> "usd",    amount |-> 1, whole |-> TRUE],
      [buys |-> TRUE,  by |-> "shares", amount |-> 1, whole |-> FALSE],
      [buys |-> FALSE, by |-> "shares", amount |-> 2, whole |-> TRUE] }

CONSTANTS ann, bob

\* One of two operators tries again.
MCAttempts == (ann :> 2) @@ (bob :> 1)

=============================================================================
