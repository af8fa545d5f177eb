------------------------------- MODULE MCBooks -------------------------------
(* Two flats; bills of 2, a payment of 3 and one of 1, opening balances of *)
(* 1 and of nothing.                                                       *)
EXTENDS Books

CONSTANTS p1, p2, u1, u2, o1, o2

MCUnitOf == [x \in Payments \cup Balances |-> IF x = o2 THEN u2 ELSE u1]
MCAmountOf == [x \in Payments \cup Balances |-> IF x = p1 THEN 3 ELSE IF x = o2 THEN 0 ELSE 1]
MCAsOf == [b \in Balances |-> 2]
MCNumberOf == [b \in Balances |-> IF b = o1 THEN 0 - 1 ELSE 0 - 2]
MCTotal == [m \in Months |-> 2]
==============================================================================
