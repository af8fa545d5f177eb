------------------------- MODULE StandingRulesReduce -------------------------
(***************************************************************************)
(* matchStandingRule as the code computes it: a filter, then a reduce over *)
(* the rows in whatever order the database returned them                   *)
(* (apps/api/src/modules/gate/ladder.ts:134-163).  A flat adds its rules   *)
(* one at a time; after each the choice is compared with its definition.   *)
(***************************************************************************)
EXTENDS StandingRules, SequencesExt

CONSTANTS RuleShapes,   \* the rules a flat may add, without their ids
          Requests,     \* the visitors who may come
          MaxRules      \* bound on the rules of one flat

VARIABLES rules,        \* the rows of standing_rules, in the order they are read
          request       \* the visitor at the gate

vars == <<rules, request>>

Init == rules = <<>> /\ request \in Requests

(* A row is added; the query may return it at any position.                *)
AddRule(shape, i) ==
  /\ Len(rules) < MaxRules
  /\ i \in 1..(Len(rules) + 1)
  /\ \E n \in 1..MaxRules :
       /\ \A j \in DOMAIN rules : rules[j].id # n
       /\ rules' = InsertAt(rules, i, [id |-> n, category |-> shape.category,
                                       matcher |-> shape.matcher, action |-> shape.action,
                                       isActive |-> shape.isActive])
  /\ UNCHANGED request

Next == \E shape \in RuleShapes, i \in 1..MaxRules : AddRule(shape, i)

Spec == Init /\ [][Next]_vars
------------------------------------------------------------------------------
(* Mutants of Better: of two equally specific rules the first stays, or    *)
(* the last does, whatever they say.                                       *)
BetterIgnoresCaution(best, rule) ==
  IF Specificity(rule) > Specificity(best) THEN rule ELSE best
BetterIsLast(best, rule) ==
  IF Specificity(rule) >= Specificity(best) THEN rule ELSE best

Better(best, rule) ==
  LET bySpecificity == Specificity(rule) - Specificity(best)
      byCaution == ActionCaution[rule.action] - ActionCaution[best.action]
  IN  IF bySpecificity # 0
      THEN (IF bySpecificity > 0 THEN rule ELSE best)
      ELSE IF byCaution # 0
           THEN (IF byCaution > 0 THEN rule ELSE best)
           ELSE IF rule.id < best.id THEN rule ELSE best

(* The rule that decides, as a sequence of at most one.  The rows the      *)
(* filter keeps are their positions; the reduce starts with the first.     *)
MatchStandingRule(rows, visitor) ==
  LET applicable == {i \in DOMAIN rows : Applies(rows[i], visitor)}
      first == Min(applicable)
  IN  IF applicable = {} THEN <<>>
      ELSE <<MapThenFoldSet(LAMBDA rule, best : Better(best, rule), rows[first],
                            LAMBDA i : rows[i], LAMBDA s : Max(s), applicable \ {first})>>
------------------------------------------------------------------------------
(* The reduce returns the one applicable rule that no other beats, in      *)
(* whatever order the rows come (ladder.ts:153-162): the outcome is stable *)
(* across processes and replays.                                           *)
ReduceFindsTheWinner ==
  ToSet(MatchStandingRule(rules, request)) = Winners(ToSet(rules), request)

(* A rule added later is never the reason a visitor is let in who was to   *)
(* be refused or kept waiting, unless it is strictly more specific than    *)
(* the rule that decided before (ladder.ts:128-132).                       *)
LettingInNeedsAMoreSpecificRule ==
  [][LET before == MatchStandingRule(rules, request)
         after  == MatchStandingRule(rules', request')
     IN  (before # <<>> /\ before[1].action # "auto_approve"
          /\ after[1].action = "auto_approve")
         => Specificity(after[1]) > Specificity(before[1])]_vars
==============================================================================
