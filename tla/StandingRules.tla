---------------------------- MODULE StandingRules ----------------------------
(***************************************************************************)
(* What a flat has decided in advance about its visitors                   *)
(* (apps/api/src/modules/gate/ladder.ts:59-182).  A rule may name a        *)
(* category, a company ("Amazon"), both or neither.  Several rules may     *)
(* apply to one visitor; the most specific wins and, between equally       *)
(* specific ones, the most cautious.                                       *)
(*                                                                         *)
(* A free-text matcher is one of the members of Needles, NoText when the   *)
(* column is null or empty, or Blank when it is white space only.  Of a    *)
(* visitor's name only the set of needles it contains matters.             *)
(***************************************************************************)
EXTENDS Integers, FiniteSets

CONSTANTS Needles,      \* the texts a matcher may hold
          NoText,       \* no matcher
          Blank,        \* a matcher that is empty once trimmed
          Categories,   \* visitor categories
          AnyCategory   \* a rule that names no category

Actions == {"auto_approve", "ask_to_wait", "deny"}

StandingRule ==
  [id : Nat, category : Categories \cup {AnyCategory},
   matcher : Needles \cup {NoText, Blank}, action : Actions, isActive : BOOLEAN]

VisitorRequest == [category : Categories, names : SUBSET Needles]

Applies(rule, request) ==
  /\ rule.isActive
  /\ rule.category \in {AnyCategory, request.category}
  /\ rule.matcher # NoText => rule.matcher \in request.names

Applicable(rules, request) == {rule \in rules : Applies(rule, request)}

Specificity(rule) ==
  (IF rule.matcher # NoText THEN 2 ELSE 0) + (IF rule.category # AnyCategory THEN 1 ELSE 0)

ActionCaution == [deny |-> 2, ask_to_wait |-> 1, auto_approve |-> 0]

(* Mutant of Beats: a tie goes to the rule that lets the visitor in.       *)
BeatsBoldly(a, b) ==
  \/ Specificity(a) > Specificity(b)
  \/ /\ Specificity(a) = Specificity(b)
     /\ \/ ActionCaution[a.action] < ActionCaution[b.action]
        \/ ActionCaution[a.action] = ActionCaution[b.action] /\ a.id < b.id

(* The comparison of the reduce: specificity, then caution, then the id.   *)
Beats(a, b) ==
  \/ Specificity(a) > Specificity(b)
  \/ /\ Specificity(a) = Specificity(b)
     /\ \/ ActionCaution[a.action] > ActionCaution[b.action]
        \/ /\ ActionCaution[a.action] = ActionCaution[b.action]
           /\ a.id < b.id

(* The rules the reduce may return: nothing applicable beats them.  Ids    *)
(* are a primary key, so there is one of them when any rule applies; the   *)
(* module StandingRulesReduce checks that the reduce finds it.             *)
Winners(rules, request) ==
  {rule \in Applicable(rules, request) :
     \A other \in Applicable(rules, request) : ~Beats(other, rule)}

(* What the rung resolves the approval to; "pending" when it does not.     *)
OutcomeOfStandingRule == [auto_approve |-> "auto_approved", deny |-> "denied",
                          ask_to_wait |-> "pending"]
==============================================================================
