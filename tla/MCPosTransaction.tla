-------------------------- MODULE MCPosTransaction --------------------------
(* Small instances of PosTransaction for TLC.                              *)
EXTENDS PosTransaction, TLC

CONSTANTS a, c1, c2, w

Counter == {"new", "resume", "cancel", "return"}
\* The one sale is begun by one of the two clerks: by the first, without loss.
TwoClerksAndSquare == c1 :> Counter @@ c2 :> Counter \ {"new"} @@ w :> {"webhook"}

\* A member's sale at the terminal that uses points, a sale of all there are, a sale in
\* cash, and a purchase by bank that is paid in cash in part.
Card == [kind |-> "sell", method |-> "terminal", units |-> 1, cash |-> 0, earned |-> 1, used |-> 1]
Rest == [Card EXCEPT !.units = 2, !.earned = 0, !.used = 0]
Cash == [kind |-> "sell", method |-> "cash", units |-> 1, cash |-> 1, earned |-> 0, used |-> 0]
PartInCash == [kind |-> "buy", method |-> "bank", units |-> 1, cash |-> 1, earned |-> 0, used |-> 0]
Everything == {Card, Rest, Cash, PartInCash}

=============================================================================
