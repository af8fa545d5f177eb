---------------------------- MODULE ApprovalLadder ----------------------------
(***************************************************************************)
(* One visitor at the gate: the approval row, the audit of fired rungs,    *)
(* and everyone who acts on them - the guard's request, the handlers that  *)
(* Cloud Tasks calls when a rung comes due, and the people who tap         *)
(* (apps/api/src/modules/gate/approval.service.ts, .../gate/ladder.ts,     *)
(* apps/api/src/common/tasks.service.ts).  Approvals share nothing, so one *)
(* of them has every behaviour that matters.                               *)
(*                                                                         *)
(* Every tx() of the code is a transaction of its own, so a handler is a   *)
(* process whose steps are its transactions: between two of them another   *)
(* handler runs, somebody taps, time passes, or the process dies.          *)
(***************************************************************************)
EXTENDS StandingRules, Sequences

CONSTANTS
  Handlers,      \* API processes that can work on this approval at once
  People,        \* the society's signed-in people: any of them may tap
  FlatRules,     \* the sets of standing rules the flat may have
  Visitors,      \* the visitors who may come
  Instants,      \* the seconds since the request at which things may happen
  ClockSkew,     \* how far the clocks of two processes may differ
  MaxFailures,   \* bound: handlers that die or throw
  MaxRefusals,   \* bound: enqueue calls the queue answers with an error
  MaxAttempts,   \* deliveries of a task before the queue drops it
  Nobody, NoRule

ASSUME InstantsAssumption == Instants \subseteq Nat /\ 0 \in Instants
ASSUME BoundsAssumption ==
  /\ ClockSkew \in Nat /\ MaxFailures \in Nat /\ MaxRefusals \in Nat
  /\ MaxAttempts \in Nat \ {0}
ASSUME RulesAssumption ==
  /\ \A rules \in FlatRules : rules \subseteq StandingRule
  /\ Visitors \subseteq VisitorRequest
  /\ NoRule \notin StandingRule /\ Nobody \notin People

VARIABLES
  now,           \* seconds since the request, on the queue's clock
  state,         \* approvals.state; "none" before the guard asks
  decision,      \* approvals.resolved_by, resolution_rung, standing_rule_id
  rows,          \* approval_rungs, in the order they were inserted
  rules,         \* the flat's rows of standing_rules
  visitor,       \* what the guard typed
  taps,          \* what each person's tap came to
  queue,         \* tasks the queue still has to complete
  names,         \* task names the queue will not accept again
  pc, job,       \* where each handler is, and what it holds in memory
  failures, refusals

approvalVars == <<state, decision, rows>>
queueVars == <<queue, names>>
budgets == <<failures, refusals>>
vars == <<now, approvalVars, rules, visitor, taps, queueVars, pc, job, budgets>>
------------------------------------------------------------------------------
(* The ladder (ladder.ts:52-57).                                           *)
Rungs == {"push", "ivr", "standing_rule", "mc_escalation"}

atSeconds == [push |-> 0, ivr |-> 20, standing_rule |-> 45, mc_escalation |-> 90]

(* The first rung that has not fired, as a set of at most one.             *)
FirstUnfired(fired) ==
  {r \in Rungs \ fired : \A s \in Rungs \ fired : atSeconds[r] <= atSeconds[s]}

(* Mutant of NextRung: a late call skips to the last rung that is due.      *)
NextRungSkipping(fired, elapsed) ==
  LET due == {r \in Rungs \ fired : elapsed >= atSeconds[r]} IN
  {r \in due : \A s \in due : atSeconds[s] <= atSeconds[r]}

(* Mutant of IsDue: the elapsed milliseconds are not divided by 1000.      *)
IsDueInMilliseconds(r, elapsed) == elapsed * 1000 >= atSeconds[r]

(* What nextRung returns: the first unfired rung, once it is due.          *)
IsDue(r, elapsed) == elapsed >= atSeconds[r]
NextRung(fired, elapsed) == {r \in FirstUnfired(fired) : IsDue(r, elapsed)}

FiredRungs == {rows[i].rung : i \in DOMAIN rows}
AllFired == FiredRungs = Rungs

Answers == {"approved", "denied"}
Decided == Answers \cup {"auto_approved"}
States == {"none", "pending", "escalated"} \cup Decided

NoDecision == [by |-> Nobody, rung |-> "none", rule |-> NoRule]
IdleJob == [task |-> 0, due |-> "push", rule |-> NoRule, name |-> 0, at |-> 0]

Init ==
  /\ now = 0 /\ state = "none" /\ decision = NoDecision /\ rows = <<>>
  /\ rules \in FlatRules /\ visitor \in Visitors
  /\ taps = [r \in People |-> "none"]
  /\ queue = {} /\ names = {}
  /\ pc = [h \in Handlers |-> "idle"] /\ job = [h \in Handlers |-> IdleJob]
  /\ failures = 0 /\ refusals = 0
------------------------------------------------------------------------------
Goto(h, label) == pc' = [pc EXCEPT ![h] = label]

(* POST /gate/approvals: the row is committed, then the push rung fires.   *)
Request(h) ==
  /\ pc[h] = "idle" /\ state = "none"
  /\ state' = "pending"
  /\ job' = [job EXCEPT ![h] = [IdleJob EXCEPT !.due = "push"]]
  /\ Goto(h, "fire")
  /\ UNCHANGED <<now, decision, rows, rules, visitor, taps, queueVars, budgets>>

(* Mutant of Deliver: the queue forgets a task when it hands it out.       *)
DeliverAtMostOnce(h) ==
  /\ pc[h] = "idle"
  /\ \E t \in queue :
       /\ now >= t.at
       /\ job' = [job EXCEPT ![h] = [IdleJob EXCEPT !.task = t.name]]
       /\ queue' = queue \ {t}
  /\ Goto(h, "read")
  /\ UNCHANGED <<now, approvalVars, rules, visitor, taps, names, budgets>>

(* The queue calls the worker with a task whose time has come.  The task   *)
(* stays in the queue until a handler answers 200, so another handler may  *)
(* be given it meanwhile.                                                  *)
Deliver(h) ==
  /\ pc[h] = "idle"
  /\ \E t \in queue :
       /\ now >= t.at
       /\ job' = [job EXCEPT ![h] = [IdleJob EXCEPT !.task = t.name]]
  /\ Goto(h, "read")
  /\ UNCHANGED <<now, approvalVars, rules, visitor, taps, queueVars, budgets>>

(* advance(): an approval that is no longer pending is left alone.         *)
ReadApproval(h) ==
  /\ pc[h] = "read"
  /\ Goto(h, IF state = "pending" THEN "readRungs" ELSE "done")
  /\ UNCHANGED <<now, approvalVars, rules, visitor, taps, queueVars, job, budgets>>

(* advance(): which rung is due, by the rows and this handler's clock.     *)
ReadRungs(h) ==
  /\ pc[h] = "readRungs"
  /\ \E skew \in (-ClockSkew)..ClockSkew :
       LET due == NextRung(FiredRungs, now + skew) IN
       \/ /\ due = {}
          /\ Goto(h, "schedule")
          /\ UNCHANGED job
       \/ \E r \in due :
            /\ job' = [job EXCEPT ![h].due = r]
            /\ Goto(h, IF r = "standing_rule" THEN "readRules" ELSE "fire")
  /\ UNCHANGED <<now, approvalVars, rules, visitor, taps, queueVars, budgets>>

OrNone(found) == IF found = {} THEN {NoRule} ELSE found

(* Mutant of ReadRules: the first applicable row decides, not the best.    *)
ReadRulesInAnyOrder(h) ==
  /\ pc[h] = "readRules"
  /\ \E rule \in OrNone(Applicable(rules, visitor)) : job' = [job EXCEPT ![h].rule = rule]
  /\ Goto(h, "fire")
  /\ UNCHANGED <<now, approvalVars, rules, visitor, taps, queueVars, budgets>>

(* applyStandingRule(): the flat's rules are read and matched.             *)
ReadRules(h) ==
  /\ pc[h] = "readRules"
  /\ \E rule \in OrNone(Winners(rules, visitor)) : job' = [job EXCEPT ![h].rule = rule]
  /\ Goto(h, "fire")
  /\ UNCHANGED <<now, approvalVars, rules, visitor, taps, queueVars, budgets>>

(* fireRung(): the row is committed before anything is done about it.      *)
Resolves(rule) == rule # NoRule /\ OutcomeOfStandingRule[rule.action] # "pending"

Fire(h) ==
  /\ pc[h] = "fire"
  /\ rows' = Append(rows, [rung |-> job[h].due, rule |-> job[h].rule])
  /\ Goto(h, CASE job[h].due = "mc_escalation" -> "escalate"
               [] job[h].due = "standing_rule" /\ Resolves(job[h].rule) -> "apply"
               [] OTHER -> "schedule")
  /\ UNCHANGED <<now, state, decision, rules, visitor, taps, queueVars, job, budgets>>

(* Mutants of StillOpen: the UPDATE has no guard, or only spares answers.  *)
NoGuard == TRUE
NotYetAnswered == state \in {"pending", "escalated"}

(* UPDATE ... WHERE state = 'pending', the guard every decision has.       *)
StillOpen == state = "pending"

Settle(outcome, how) ==
  IF StillOpen
  THEN state' = outcome /\ decision' = how
  ELSE UNCHANGED <<state, decision>>

(* Mutant of ApplyRule: it waits for the committee to have been alerted.   *)
ApplyRuleWhenEscalated(h) ==
  /\ pc[h] = "apply"
  /\ IF state = "escalated"
     THEN state' = OutcomeOfStandingRule[job[h].rule.action]
     ELSE UNCHANGED state
  /\ Goto(h, "done")
  /\ UNCHANGED <<now, decision, rows, rules, visitor, taps, queueVars, job, budgets>>

ApplyRule(h) ==
  /\ pc[h] = "apply"
  /\ Settle(OutcomeOfStandingRule[job[h].rule.action],
            [by |-> Nobody, rung |-> "standing_rule", rule |-> job[h].rule])
  /\ Goto(h, "done")
  /\ UNCHANGED <<now, rows, rules, visitor, taps, queueVars, job, budgets>>

(* Mutant of MarkEscalated: a state of the enum that nothing else knows.   *)
MarkTimedOut(h) ==
  /\ pc[h] = "escalate"
  /\ Settle("timed_out", decision)
  /\ Goto(h, "done")
  /\ UNCHANGED <<now, rows, rules, visitor, taps, queueVars, job, budgets>>

MarkEscalated(h) ==
  /\ pc[h] = "escalate"
  /\ Settle("escalated", decision)
  /\ Goto(h, "done")
  /\ UNCHANGED <<now, rows, rules, visitor, taps, queueVars, job, budgets>>

(* Mutant of ScheduleNext: one task name per approval.                     *)
ScheduleNextUnderOneName(h) ==
  /\ pc[h] = "schedule"
  /\ \/ /\ AllFired
        /\ Goto(h, "done")
        /\ UNCHANGED job
     \/ \E r \in FirstUnfired(FiredRungs) :
          /\ job' = [job EXCEPT ![h].name = 1, ![h].at = atSeconds[r]]
          /\ Goto(h, "enqueue")
  /\ UNCHANGED <<now, approvalVars, rules, visitor, taps, queueVars, budgets>>

(* scheduleNext(): the task is named for the number of rows there are.     *)
ScheduleNext(h) ==
  /\ pc[h] = "schedule"
  /\ \/ /\ AllFired
        /\ Goto(h, "done")
        /\ UNCHANGED job
     \/ \E r \in FirstUnfired(FiredRungs) :
          /\ job' = [job EXCEPT ![h].name = Len(rows), ![h].at = atSeconds[r]]
          /\ Goto(h, "enqueue")
  /\ UNCHANGED <<now, approvalVars, rules, visitor, taps, queueVars, budgets>>

(* enqueueCloudTask(): accepted; refused as a duplicate name (409), which  *)
(* is taken for success; or refused for another reason, which is logged.   *)
Enqueue(h) ==
  /\ pc[h] = "enqueue"
  /\ \/ /\ job[h].name \notin names
        /\ queue' = queue \cup {[name |-> job[h].name, at |-> job[h].at, attempts |-> 0]}
        /\ names' = names \cup {job[h].name}
        /\ UNCHANGED refusals
     \/ /\ job[h].name \in names
        /\ UNCHANGED <<queueVars, refusals>>
     \/ /\ refusals < MaxRefusals
        /\ refusals' = refusals + 1
        /\ UNCHANGED queueVars
  /\ Goto(h, "done")
  /\ UNCHANGED <<now, approvalVars, rules, visitor, taps, job, failures>>

(* The response: 200 completes the task.                                   *)
Finish(h) ==
  /\ pc[h] = "done"
  /\ queue' = {t \in queue : t.name # job[h].task}
  /\ job' = [job EXCEPT ![h] = IdleJob]
  /\ Goto(h, "idle")
  /\ UNCHANGED <<now, approvalVars, rules, visitor, taps, names, budgets>>

(* A handler dies or throws between two transactions.  The queue hears no  *)
(* 200 and tries again, up to its retry limit; its name stays reserved.    *)
Retried(t) == [t EXCEPT !.attempts = @ + 1]

Fail(h) ==
  /\ pc[h] # "idle" /\ failures < MaxFailures
  /\ failures' = failures + 1
  /\ LET mine == {t \in queue : t.name = job[h].task} IN
       queue' = (queue \ mine)
                \cup {Retried(t) : t \in {u \in mine : u.attempts + 1 < MaxAttempts}}
  /\ job' = [job EXCEPT ![h] = IdleJob]
  /\ Goto(h, "idle")
  /\ UNCHANGED <<now, approvalVars, rules, visitor, taps, names, refusals>>

(* resolve(): somebody taps approve or deny, once each.  Neither the route *)
(* nor the service asks who: resident of the flat, neighbour, guard and    *)
(* committee member (whose console has the button) are all heard.          *)
Tap(r, answer) ==
  /\ state # "none" /\ taps[r] = "none"
  /\ Settle(answer, [by |-> r, rung |-> "push", rule |-> NoRule])
  /\ taps' = [taps EXCEPT ![r] = IF StillOpen THEN "accepted" ELSE "refused"]
  /\ UNCHANGED <<now, rows, rules, visitor, queueVars, pc, job, budgets>>

Tick ==
  /\ state # "none"
  /\ \E t \in Instants : t > now /\ now' = t
  /\ UNCHANGED <<approvalVars, rules, visitor, taps, queueVars, pc, job, budgets>>

Step(h) ==
  \/ ReadApproval(h) \/ ReadRungs(h) \/ ReadRules(h) \/ Fire(h) \/ ApplyRule(h)
  \/ MarkEscalated(h) \/ ScheduleNext(h) \/ Enqueue(h) \/ Finish(h)

Next ==
  \/ \E h \in Handlers : Request(h) \/ Deliver(h) \/ Step(h) \/ Fail(h)
  \/ \E r \in People, answer \in Answers : Tap(r, answer)
  \/ Tick

Spec == Init /\ [][Next]_vars

(* Cloud Run keeps running a request it accepted, the queue keeps trying a *)
(* task it holds, and time passes.  Nobody is obliged to tap.              *)
Fairness ==
  /\ \A h \in Handlers : WF_vars(Step(h))
  /\ WF_vars(\E h \in Handlers : Deliver(h))
  /\ WF_vars(Tick)

FairSpec == Spec /\ Fairness
------------------------------------------------------------------------------
Row == [rung : Rungs, rule : StandingRule \cup {NoRule}]
Task == [name : Nat, at : Nat, attempts : Nat]
Job == [task : Nat, due : Rungs, rule : StandingRule \cup {NoRule}, name : Nat, at : Nat]
Labels == {"idle", "read", "readRungs", "readRules", "fire", "apply", "escalate",
           "schedule", "enqueue", "done"}

TypeOK ==
  /\ now \in Nat /\ state \in States
  /\ decision \in [by : People \cup {Nobody}, rung : {"none", "push", "standing_rule"},
                   rule : StandingRule \cup {NoRule}]
  /\ rows \in Seq(Row)
  /\ rules \subseteq StandingRule /\ visitor \in VisitorRequest
  /\ taps \in [People -> {"none", "accepted", "refused"}]
  /\ queue \subseteq Task /\ names \subseteq Nat
  /\ pc \in [Handlers -> Labels] /\ job \in [Handlers -> Job]
  /\ failures \in Nat /\ refusals \in Nat

(* First response wins (approval.service.ts:134): once anyone has decided, *)
(* or the committee has been handed the visitor, no tap, no rule and no    *)
(* late rung changes the state or who is recorded as having decided.       *)
DecisionIsFinal ==
  [][(state \in Decided \cup {"escalated"}) => UNCHANGED <<state, decision>>]_vars

(* Every answer has one author, and the record names the right one: the    *)
(* only person whose tap was told that it was accepted; or, when no tap    *)
(* was, an active rule of the flat that matches the visitor, that no       *)
(* applicable rule beats, that says exactly that, and that fired as the    *)
(* standing-rule rung (approval.service.ts:137-219).  That the person is   *)
(* of the flat it does not say: the code takes anybody's tap.              *)
DecisionHasOneAuthor ==
  state \in Decided =>
    \/ /\ state \in Answers /\ decision.rung = "push"
       /\ decision.by \in People
       /\ \A r \in People : taps[r] = "accepted" <=> r = decision.by
    \/ /\ decision.rung = "standing_rule" /\ decision.by = Nobody
       /\ decision.rule \in Winners(rules, visitor)
       /\ state = OutcomeOfStandingRule[decision.rule.action]
       /\ \E i \in DOMAIN rows : rows[i].rung = "standing_rule" /\ rows[i].rule = decision.rule
       /\ \A r \in People : taps[r] # "accepted"

(* No rung fires before its moment, whatever handlers die, are called      *)
(* twice or are called late, and every rung before it on the ladder has    *)
(* fired first (ladder.ts:86-95).                                          *)
LadderIsClimbedInOrder ==
  [][rows' # rows =>
       LET new == rows'[Len(rows')].rung IN
       /\ now + ClockSkew >= atSeconds[new]
       /\ \A r \in Rungs : atSeconds[r] < atSeconds[new] => r \in FiredRungs]_vars

(* The visitor is never forgotten: while the ladder has rungs left, the    *)
(* queue holds a task for an undecided approval, whichever handlers died - *)
(* provided that the queue took every task it was given, did not run out   *)
(* of attempts, and the clocks agree (approval.service.ts:89-99, "safe to  *)
(* call late, twice, or out of order").                                    *)
PendingIsDriven ==
  (/\ state = "pending" /\ names # {} /\ ~AllFired
   /\ ClockSkew = 0 /\ refusals = 0 /\ failures < MaxAttempts)
  => queue # {}

(* The committee is only handed a visitor whose residents were pushed,     *)
(* called and had their rules consulted first, and whom nobody had         *)
(* answered (ladder.ts:42-51).                                             *)
EscalationIsTheLastResort ==
  state = "escalated" => AllFired /\ \A r \in People : taps[r] # "accepted"

(* Under the queue's retries and the passing of time every visitor is      *)
(* decided on or every rung is tried, even when handlers die - unless the  *)
(* queue refused a task, which the code only logs (tasks.service.ts:147).  *)
EveryRungIsTried ==
  (state = "pending" /\ names # {}) ~> (state # "pending" \/ AllFired \/ refusals > 0)

(* The ladder implements what it promises (VisitorDecision): one answer,   *)
(* from a person, from the flat's rules, or from nobody, and none of the   *)
(* last two before their time - as the clock of the process that happens   *)
(* to run the rung tells it (approval.service.ts:100-230).                 *)
VerdictOf(flatRules, request) ==
  LET winners == Winners(flatRules, request) IN
  IF \E rule \in winners : Resolves(rule)
  THEN OutcomeOfStandingRule[(CHOOSE rule \in winners : TRUE).action]
  ELSE "pending"

Verdict == VerdictOf(rules, visitor)

Promise == INSTANCE VisitorDecision WITH
  RuleDelay <- atSeconds["standing_rule"] - ClockSkew,
  CommitteeDelay <- atSeconds["mc_escalation"] - ClockSkew,
  clock <- now, outcome <- state, answeredBy <- decision.by, verdict <- Verdict

ImplementsPromise == Promise!Spec

(* While no handler dies and no enqueue is refused, somebody always        *)
(* answers in the end: "the visitor is not left standing indefinitely      *)
(* while nobody takes responsibility" (ladder.ts:49-50).                   *)
SomebodyAnswers ==
  [](failures = 0 /\ refusals = 0) => (state = "pending" ~> state # "pending")

(* "First response wins" (approval.service.ts:134): a tap is refused only  *)
(* when somebody has already decided.                                      *)
RefusedOnlyWhenDecided ==
  \A r \in People : taps[r] = "refused" => state \in Decided

(* "... when the ladder is exhausted - the caller then leaves the approval *)
(* in `escalated`" (ladder.ts:79): when every rung has fired and nothing   *)
(* is still running, the approval is not left pending.                     *)
ExhaustedLadderIsEscalated ==
  AllFired /\ queue = {} /\ (\A h \in Handlers : pc[h] = "idle") => state # "pending"
==============================================================================
