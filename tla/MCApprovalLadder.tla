--------------------------- MODULE MCApprovalLadder ---------------------------
(* Two handlers, two people, and flats whose rules decide, decline to   *)
(* decide, conflict, or do not exist.                                      *)
EXTENDS ApprovalLadder, TLC

MCRule(n, action, isActive) ==
  [id |-> n, category |-> AnyCategory, matcher |-> NoText, action |-> action,
   isActive |-> isActive]

(* A rule that decides nothing; and "let deliveries in, nobody else".      *)
MCFlatRules ==
  {{MCRule(1, "ask_to_wait", TRUE)},
   {[MCRule(1, "auto_approve", TRUE) EXCEPT !.category = "delivery"],
    MCRule(2, "deny", TRUE), MCRule(3, "deny", FALSE)}}

(* Two equally specific rules that contradict one another.                 *)
MCContradiction == {{MCRule(1, "auto_approve", TRUE), MCRule(2, "deny", TRUE)}}

MCVisitors == {[category |-> "delivery", names |-> {}]}
MCInstants == {0, 20, 45, 90}
MCSkewedInstants == {0, 20, 44, 90}   \* a fast clock takes 44 s for 45 s
MCSymmetry == Permutations(Handlers) \cup Permutations(People)
==============================================================================
