--------------------------- MODULE VisitorDecision ---------------------------
(***************************************************************************)
(* What the approval ladder promises the people involved, with no mention  *)
(* of handlers, rungs, rows or tasks: one visitor gets one answer, from a  *)
(* person at any moment, from the flat's own rule once the residents       *)
(* have had their time, or - when neither answers - the visitor becomes    *)
(* the committee's (ladder.ts:42-57, approval.service.ts:131-181).         *)
(***************************************************************************)
EXTENDS Integers

CONSTANTS People, Nobody,
          RuleDelay,      \* seconds the residents have before their rule may answer
          CommitteeDelay  \* seconds before the committee may be asked

VARIABLES clock,          \* seconds since the guard asked
          outcome,        \* "none", "pending", or the answer
          answeredBy,     \* the person who answered, or Nobody
          verdict         \* what the flat's rules say of this visitor

vars == <<clock, outcome, answeredBy, verdict>>

Init ==
  /\ clock = 0 /\ outcome = "none" /\ answeredBy = Nobody
  /\ verdict \in {"auto_approved", "denied", "pending"}

Ask ==
  /\ outcome = "none" /\ outcome' = "pending"
  /\ UNCHANGED <<clock, answeredBy, verdict>>

PersonAnswers(r) ==
  /\ outcome = "pending"
  /\ outcome' \in {"approved", "denied"} /\ answeredBy' = r
  /\ UNCHANGED <<clock, verdict>>

RuleAnswers ==
  /\ outcome = "pending" /\ clock >= RuleDelay
  /\ verdict # "pending" /\ outcome' = verdict
  /\ UNCHANGED <<clock, answeredBy, verdict>>

HandOver ==
  /\ outcome = "pending" /\ clock >= CommitteeDelay
  /\ outcome' = "escalated"
  /\ UNCHANGED <<clock, answeredBy, verdict>>

Wait ==
  /\ outcome # "none" /\ clock' > clock
  /\ UNCHANGED <<outcome, answeredBy, verdict>>

Next == Ask \/ (\E r \in People : PersonAnswers(r)) \/ RuleAnswers \/ HandOver \/ Wait

Spec == Init /\ [][Next]_vars

(* And somebody does answer: a person, the rule, or the committee          *)
(* takes the visitor over.                                                 *)
FairSpec == Spec /\ WF_vars(HandOver)
==============================================================================
