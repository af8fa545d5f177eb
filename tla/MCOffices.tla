----------------------------- MODULE MCOffices -----------------------------
(***************************************************************************)
(* Four small modules on small instances: Sessions, Registers, PreviewForm *)
(* and StandingRulesReduce.  They share nothing, so a behaviour exercises  *)
(* one of them.                                                            *)
(***************************************************************************)
EXTENDS Sessions, TLC

CONSTANTS
  Requests, Slots, Cars, Parcels, Alerts, Guards,   \* Registers
  Inputs, None,                                     \* PreviewForm
  NoText, Blank, AnyCategory, MaxRules              \* StandingRulesReduce

ASSUME RulesAssumption == MaxRules \in Nat

VARIABLES
  part,
  register, cars, slots, parcels, alerts, requests, overlappedRequests,
  inputs, preview, working, sent, approved, disturbed,
  rules, request

registerVars == <<register, cars, slots, parcels, alerts, requests, overlappedRequests>>
previewVars == <<inputs, preview, working, sent, approved, disturbed>>
ruleVars == <<rules, request>>

(* One company's name, two categories, every kind of matcher, every action *)
(* and an inactive rule.                                                   *)
McActions == {"auto_approve", "ask_to_wait", "deny"}
McRuleShapes ==
  [category : {"delivery", AnyCategory}, matcher : {"amazon", NoText},
   action : McActions, isActive : {TRUE}]
  \cup [category : {AnyCategory}, matcher : {Blank}, action : {"auto_approve"},
        isActive : {TRUE}]
  \cup [category : {"delivery"}, matcher : {"amazon"}, action : {"auto_approve"},
        isActive : {FALSE}]

R == INSTANCE Registers WITH overlapped <- overlappedRequests
P == INSTANCE PreviewForm
M == INSTANCE StandingRulesReduce
       WITH Needles <- {"amazon"}, Categories <- {"delivery", "guest"},
            RuleShapes <- McRuleShapes,
            Requests <- [category : {"delivery", "guest"}, names : {{}, {"amazon"}}]

OfficesInit ==
  /\ part \in {"sessions", "registers", "preview", "rules"}
  /\ Init /\ R!Init /\ P!Init /\ M!Init
  /\ part = "sessions" \/ client = "console"
  /\ part = "registers" \/ register = "parking"
  /\ part = "preview" \/ inputs = CHOOSE i \in Inputs : TRUE
  /\ part = "rules" \/ request = [category |-> "guest", names |-> {}]

OfficesNext ==
  /\ UNCHANGED part
  /\ \/ part = "sessions" /\ Next /\ UNCHANGED <<registerVars, previewVars, ruleVars>>
     \/ part = "registers" /\ R!Next /\ UNCHANGED <<vars, previewVars, ruleVars>>
     \/ part = "preview" /\ P!Next /\ UNCHANGED <<vars, registerVars, ruleVars>>
     \/ part = "rules" /\ M!Next /\ UNCHANGED <<vars, registerVars, previewVars>>

OfficesSpec ==
  OfficesInit /\ [][OfficesNext]_<<part, vars, registerVars, previewVars, ruleVars>>

Symmetry == Permutations(Calls)

(* The properties of the other modules, stated there.                      *)
NobodyIsMovedSilently == R!NobodyIsMovedSilently
SettledRecordsStand == R!SettledRecordsStand
UndisturbedPreviewIsIssued == P!UndisturbedPreviewIsIssued
ReduceFindsTheWinner == M!ReduceFindsTheWinner
LettingInNeedsAMoreSpecificRule == M!LettingInNeedsAMoreSpecificRule
=============================================================================
