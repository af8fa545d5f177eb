------------------------- MODULE ApprovalLadderProofs -------------------------
(***************************************************************************)
(* Proofs about the approval ladder, for any number of handlers and        *)
(* people, any rules, any clock skew and any number of failures.           *)
(***************************************************************************)
EXTENDS ApprovalLadder, TLAPS

(* Rung r may fire: its moment has come and the ones before it have fired. *)
MayFire(r) ==
  /\ now + ClockSkew >= atSeconds[r]
  /\ \A s \in Rungs : atSeconds[s] < atSeconds[r] => s \in FiredRungs

(* What a handler holds in memory is still true of the database.           *)
HandlerInv(h) ==
  /\ pc[h] \in {"read", "readRungs", "readRules"} => job[h].rule = NoRule
  /\ pc[h] = "readRules" => job[h].due = "standing_rule"
  /\ pc[h] \in {"readRules", "fire"} => MayFire(job[h].due)
  /\ pc[h] = "fire" /\ job[h].rule # NoRule =>
       job[h].due = "standing_rule" /\ job[h].rule \in Winners(rules, visitor)
  /\ pc[h] = "apply" =>
       /\ Resolves(job[h].rule)
       /\ job[h].rule \in Winners(rules, visitor)
       /\ MayFire("standing_rule")
       /\ \E i \in DOMAIN rows :
            rows[i].rung = "standing_rule" /\ rows[i].rule = job[h].rule
  /\ pc[h] = "escalate" => AllFired /\ MayFire("mc_escalation")

HandlersInv == \A h \in Handlers : HandlerInv(h)

(* Until somebody has answered, no tap has been accepted.                  *)
UnansweredInv == state \notin Answers => \A r \in People : taps[r] # "accepted"

(* Nobody is recorded as having decided before somebody has.               *)
PendingInv == state \in {"none", "pending"} => decision.by = Nobody

AnswersInv ==
  UnansweredInv /\ PendingInv /\ DecisionHasOneAuthor /\ EscalationIsTheLastResort

IInv == TypeOK /\ HandlersInv /\ AnswersInv
------------------------------------------------------------------------------
(* A winner is one of the flat's rules.                                    *)
LEMMA WinnersAreRules ==
  ASSUME NEW S, NEW request, NEW w \in Winners(S, request) PROVE w \in S
BY DEF Winners, Applicable

(* Two winners say the same thing.                                         *)
LEMMA WinnersAgree ==
  ASSUME NEW S \in SUBSET StandingRule, NEW request,
         NEW a \in Winners(S, request), NEW b \in Winners(S, request)
  PROVE  a.action = b.action
<1>1. a \in StandingRule /\ b \in StandingRule
  BY WinnersAreRules
<1>2. ~Beats(a, b) /\ ~Beats(b, a)
  BY DEF Winners
<1>3. Specificity(a) \in Int /\ Specificity(b) \in Int
  BY DEF Specificity
<1>4. a.action \in Actions /\ b.action \in Actions
  BY <1>1 DEF StandingRule
<1>5. ActionCaution[a.action] \in Int /\ ActionCaution[b.action] \in Int
  BY <1>4 DEF ActionCaution, Actions
<1>6. ActionCaution[a.action] = ActionCaution[b.action]
  BY <1>2, <1>3, <1>5 DEF Beats
<1> QED
  BY <1>4, <1>6 DEF ActionCaution, Actions

(* The standing-rule rung never decides "pending".                         *)
LEMMA ResolvingOutcome ==
  ASSUME NEW rule \in StandingRule, Resolves(rule)
  PROVE  OutcomeOfStandingRule[rule.action] \in {"auto_approved", "denied"}
BY DEF Resolves, OutcomeOfStandingRule, StandingRule, Actions

(* A rung that fires is added to those that have.                          *)
LEMMA FiredRungsGrow ==
  ASSUME TypeOK, NEW row \in Row, rows' = Append(rows, row)
  PROVE  /\ FiredRungs' = FiredRungs \cup {row.rung}
         /\ rows' \in Seq(Row) /\ Len(rows') = Len(rows) + 1
         /\ rows'[Len(rows')] = row
         /\ \A i \in DOMAIN rows : i \in DOMAIN rows' /\ rows'[i] = rows[i]
<1>1. rows \in Seq(Row)
  BY DEF TypeOK
<1>2. rows' \in Seq(Row) /\ Len(rows') = Len(rows) + 1 /\ rows'[Len(rows')] = row
  BY <1>1
<1>3. \A i \in DOMAIN rows : i \in DOMAIN rows' /\ rows'[i] = rows[i]
  BY <1>1
<1>4. DOMAIN rows' = DOMAIN rows \cup {Len(rows')}
  BY <1>1, <1>2
<1>5. FiredRungs' = {rows'[i].rung : i \in DOMAIN rows'}
  BY DEF FiredRungs
<1>6. FiredRungs' = FiredRungs \cup {row.rung}
  BY <1>2, <1>3, <1>4, <1>5 DEF FiredRungs
<1> QED
  BY <1>2, <1>3, <1>6

(* What the ladder says of the rungs.                                      *)
LEMMA LadderFacts ==
  /\ \A r \in Rungs : atSeconds[r] \in Nat
  /\ atSeconds["push"] = 0
  /\ \A r \in Rungs : r # "mc_escalation" => atSeconds[r] < atSeconds["mc_escalation"]
  /\ \A r \in Rungs : atSeconds["push"] <= atSeconds[r]
BY DEF Rungs, atSeconds

(* A rung that nextRung returns may fire.                                  *)
LEMMA DueMayFire ==
  ASSUME TypeOK, NEW skew \in (-ClockSkew)..ClockSkew,
         NEW r \in NextRung(FiredRungs, now + skew)
  PROVE  r \in Rungs /\ MayFire(r)
<1>1. r \in Rungs /\ now + skew >= atSeconds[r]
  BY DEF NextRung, FirstUnfired, IsDue
<1>2. now + ClockSkew >= atSeconds[r]
  BY <1>1, BoundsAssumption, LadderFacts DEF TypeOK
<1>3. \A s \in Rungs : s \notin FiredRungs => atSeconds[r] <= atSeconds[s]
  BY DEF NextRung, FirstUnfired
<1> QED
  BY <1>1, <1>2, <1>3, LadderFacts DEF MayFire
------------------------------------------------------------------------------
(* A handler's memory keeps its type when one field of it is written.      *)
LEMMA JobUpdates ==
  ASSUME NEW j \in Job
  PROVE  /\ IdleJob \in Job
         /\ \A n \in Nat : [IdleJob EXCEPT !.task = n] \in Job
         /\ [IdleJob EXCEPT !.due = "push"] \in Job
         /\ \A r \in Rungs : [j EXCEPT !.due = r] \in Job
         /\ \A rule \in StandingRule \cup {NoRule} : [j EXCEPT !.rule = rule] \in Job
         /\ \A n, at \in Nat : [j EXCEPT !.name = n, !.at = at] \in Job
<1>1. IdleJob \in Job /\ \A n \in Nat : [IdleJob EXCEPT !.task = n] \in Job
  BY DEF IdleJob, Job, Rungs
<1>2. [IdleJob EXCEPT !.due = "push"] \in Job
  BY DEF IdleJob, Job, Rungs
<1>3. \A r \in Rungs : [j EXCEPT !.due = r] \in Job
  BY DEF Job
<1>4. \A rule \in StandingRule \cup {NoRule} : [j EXCEPT !.rule = rule] \in Job
  BY DEF Job
<1>5. \A n, at \in Nat : [j EXCEPT !.name = n, !.at = at] \in Job
  BY DEF Job
<1> QED
  BY <1>1, <1>2, <1>3, <1>4, <1>5

(* The variables keep their types.                                         *)
LEMMA TypeStep ==
  ASSUME TypeOK, HandlersInv, [Next]_vars
  PROVE  TypeOK'
<1> USE DEF approvalVars, queueVars, budgets
<1>1. ASSUME NEW h \in Handlers, Request(h) PROVE TypeOK'
  BY <1>1, JobUpdates DEF TypeOK, Request, Goto, Labels, States
<1>2. ASSUME NEW h \in Handlers, Deliver(h) PROVE TypeOK'
  <2>1. PICK t \in queue : job' = [job EXCEPT ![h] = [IdleJob EXCEPT !.task = t.name]]
    BY <1>2 DEF Deliver
  <2>2. t.name \in Nat
    BY DEF TypeOK, Task
  <2> QED
    BY <1>2, <2>1, <2>2, JobUpdates DEF TypeOK, Deliver, Goto, Labels
<1>3. ASSUME NEW h \in Handlers, ReadApproval(h) PROVE TypeOK'
  BY <1>3 DEF TypeOK, ReadApproval, Goto, Labels
<1>4. ASSUME NEW h \in Handlers, ReadRungs(h) PROVE TypeOK'
  <2>1. job' \in [Handlers -> Job]
    <3>1. CASE UNCHANGED job
      BY <3>1 DEF TypeOK
    <3>2. ASSUME NEW skew \in (-ClockSkew)..ClockSkew,
                 NEW r \in NextRung(FiredRungs, now + skew),
                 job' = [job EXCEPT ![h].due = r]
          PROVE  job' \in [Handlers -> Job]
      BY <3>2, DueMayFire, JobUpdates DEF TypeOK
    <3> QED
      BY <1>4, <3>1, <3>2 DEF ReadRungs
  <2>2. pc' \in [Handlers -> Labels]
    BY <1>4 DEF TypeOK, ReadRungs, Goto, Labels
  <2> QED
    BY <1>4, <2>1, <2>2 DEF TypeOK, ReadRungs
<1>5. ASSUME NEW h \in Handlers, ReadRules(h) PROVE TypeOK'
  <2>1. job' \in [Handlers -> Job]
    <3>1. PICK rule \in OrNone(Winners(rules, visitor)) : job' = [job EXCEPT ![h].rule = rule]
      BY <1>5 DEF ReadRules
    <3>2. rule \in StandingRule \cup {NoRule}
      BY WinnersAreRules DEF TypeOK, OrNone
    <3> QED
      BY <3>1, <3>2, JobUpdates DEF TypeOK
  <2>2. pc' \in [Handlers -> Labels]
    BY <1>5 DEF TypeOK, ReadRules, Goto, Labels
  <2> QED
    BY <1>5, <2>1, <2>2 DEF TypeOK, ReadRules
<1>6. ASSUME NEW h \in Handlers, Fire(h) PROVE TypeOK'
  <2>1. [rung |-> job[h].due, rule |-> job[h].rule] \in Row
    BY DEF TypeOK, Row, Job
  <2>2. rows' \in Seq(Row)
    BY <1>6, <2>1, FiredRungsGrow DEF Fire
  <2> QED
    BY <1>6, <2>2 DEF TypeOK, Fire, Goto, Labels
<1>7. ASSUME NEW h \in Handlers, ApplyRule(h) PROVE TypeOK'
  <2>1. Resolves(job[h].rule) /\ job[h].rule \in StandingRule
    BY <1>7 DEF ApplyRule, HandlersInv, HandlerInv, TypeOK, Resolves, Job
  <2>2. OutcomeOfStandingRule[job[h].rule.action] \in {"auto_approved", "denied"}
    BY <2>1, ResolvingOutcome
  <2> QED
    BY <1>7, <2>1, <2>2
    DEF TypeOK, ApplyRule, Settle, Goto, Labels, States, Decided, Answers
<1>8. ASSUME NEW h \in Handlers, MarkEscalated(h) PROVE TypeOK'
  BY <1>8 DEF TypeOK, MarkEscalated, Settle, Goto, Labels, States
<1>9. ASSUME NEW h \in Handlers, ScheduleNext(h) PROVE TypeOK'
  <2>1. job' \in [Handlers -> Job]
    <3>1. CASE UNCHANGED job
      BY <3>1 DEF TypeOK
    <3>2. ASSUME NEW r \in FirstUnfired(FiredRungs),
                 job' = [job EXCEPT ![h].name = Len(rows), ![h].at = atSeconds[r]]
          PROVE  job' \in [Handlers -> Job]
      <4>1. Len(rows) \in Nat /\ atSeconds[r] \in Nat
        BY LadderFacts DEF TypeOK, FirstUnfired
      <4>2. job' = [job EXCEPT ![h] = [job[h] EXCEPT !.name = Len(rows), !.at = atSeconds[r]]]
        BY <3>2 DEF TypeOK
      <4> QED
        BY <4>1, <4>2, JobUpdates DEF TypeOK
    <3> QED
      BY <1>9, <3>1, <3>2 DEF ScheduleNext
  <2>2. pc' \in [Handlers -> Labels]
    BY <1>9 DEF TypeOK, ScheduleNext, Goto, Labels
  <2> QED
    BY <1>9, <2>1, <2>2 DEF TypeOK, ScheduleNext
<1>10. ASSUME NEW h \in Handlers, Enqueue(h) PROVE TypeOK'
  <2>1. job[h].name \in Nat /\ [name |-> job[h].name, at |-> job[h].at, attempts |-> 0] \in Task
    BY DEF TypeOK, Job, Task
  <2>2. /\ names' \subseteq names \cup {job[h].name} /\ refusals' \in {refusals, refusals + 1}
        /\ queue' \subseteq
             queue \cup {[name |-> job[h].name, at |-> job[h].at, attempts |-> 0]}
    BY <1>10 DEF Enqueue
  <2>3. pc' \in [Handlers -> Labels]
    BY <1>10 DEF TypeOK, Enqueue, Goto, Labels
  <2>4. queue' \subseteq Task /\ names' \subseteq Nat /\ refusals' \in Nat
    BY <2>1, <2>2 DEF TypeOK
  <2> QED
    BY <1>10, <2>3, <2>4 DEF TypeOK, Enqueue
<1>11. ASSUME NEW h \in Handlers, Finish(h) PROVE TypeOK'
  BY <1>11, JobUpdates DEF TypeOK, Finish, Goto, Labels
<1>12. ASSUME NEW h \in Handlers, Fail(h) PROVE TypeOK'
  <2>1. ASSUME NEW t \in Task PROVE Retried(t) \in Task
    BY <2>1 DEF Retried, Task
  <2>2. queue' \subseteq Task
    BY <1>12, <2>1 DEF TypeOK, Fail
  <2>3. pc' \in [Handlers -> Labels] /\ job' \in [Handlers -> Job]
    BY <1>12, JobUpdates DEF TypeOK, Fail, Goto, Labels
  <2> QED
    BY <1>12, <2>2, <2>3 DEF TypeOK, Fail
<1>13. ASSUME NEW r \in People, NEW answer \in Answers, Tap(r, answer) PROVE TypeOK'
  BY <1>13 DEF TypeOK, Tap, Settle, States, Decided, Answers
<1>14. ASSUME Tick PROVE TypeOK'
  BY <1>14, InstantsAssumption DEF TypeOK, Tick
<1>15. ASSUME UNCHANGED vars PROVE TypeOK'
  BY <1>15 DEF TypeOK, vars
<1> QED
  BY <1>1, <1>2, <1>3, <1>4, <1>5, <1>6, <1>7, <1>8, <1>9, <1>10, <1>11, <1>12,
     <1>13, <1>14, <1>15 DEF Next, Step
------------------------------------------------------------------------------
(* What no step undoes: time moves forward, the flat's rules and the       *)
(* visitor stay, and a row that was inserted stays where it is.            *)
LEMMA Monotone ==
  ASSUME TypeOK, HandlersInv, [Next]_vars
  PROVE  /\ UNCHANGED <<rules, visitor>>
         /\ now' \in Nat /\ now' >= now
         /\ FiredRungs \subseteq FiredRungs' /\ FiredRungs' \subseteq Rungs
         /\ \A i \in DOMAIN rows : i \in DOMAIN rows' /\ rows'[i] = rows[i]
<1> USE DEF approvalVars, queueVars, budgets
<1>1. UNCHANGED <<rules, visitor>>
  BY DEF Next, Step, vars, Request, Deliver, ReadApproval, ReadRungs, ReadRules, Fire,
         ApplyRule, MarkEscalated, ScheduleNext, Enqueue, Finish, Fail, Tap, Tick
<1>2. now' \in Nat /\ now' >= now
  <2>1. UNCHANGED now \/ Tick
    BY DEF Next, Step, vars, Request, Deliver, ReadApproval, ReadRungs, ReadRules, Fire,
           ApplyRule, MarkEscalated, ScheduleNext, Enqueue, Finish, Fail, Tap
  <2> QED
    BY <2>1, InstantsAssumption DEF TypeOK, Tick
<1>3. ASSUME UNCHANGED rows
      PROVE  /\ FiredRungs \subseteq FiredRungs'
             /\ \A i \in DOMAIN rows : i \in DOMAIN rows' /\ rows'[i] = rows[i]
  BY <1>3 DEF FiredRungs
<1>4. ASSUME NEW h \in Handlers, Fire(h)
      PROVE  /\ FiredRungs \subseteq FiredRungs'
             /\ \A i \in DOMAIN rows : i \in DOMAIN rows' /\ rows'[i] = rows[i]
  <2>1. [rung |-> job[h].due, rule |-> job[h].rule] \in Row
    BY DEF TypeOK, Row, Job
  <2> QED
    BY <1>4, <2>1, FiredRungsGrow DEF Fire
<1>5. UNCHANGED rows \/ \E h \in Handlers : Fire(h)
  BY DEF Next, Step, vars, Request, Deliver, ReadApproval, ReadRungs, ReadRules,
         ApplyRule, MarkEscalated, ScheduleNext, Enqueue, Finish, Fail, Tap, Tick
<1>6. FiredRungs' \subseteq Rungs
  <2>1. rows' \in Seq(Row)
    BY TypeStep DEF TypeOK
  <2>2. \A row \in Row : row.rung \in Rungs
    BY DEF Row
  <2>3. \A i \in DOMAIN rows' : rows'[i] \in Row
    BY <2>1
  <2> QED
    BY <2>2, <2>3 DEF FiredRungs
<1> QED
  BY <1>1, <1>2, <1>3, <1>4, <1>5, <1>6

(* A rung that may fire may still fire later.                              *)
LEMMA MayFireStays ==
  ASSUME TypeOK, HandlersInv, [Next]_vars, NEW r \in Rungs, MayFire(r)
  PROVE  MayFire(r)'
<1>1. now \in Nat /\ ClockSkew \in Nat /\ atSeconds[r] \in Nat
  BY BoundsAssumption, LadderFacts DEF TypeOK
<1> QED
  BY <1>1, Monotone DEF MayFire

(* A step that leaves a handler alone leaves what it knows true.           *)
LEMMA HandlerStays ==
  ASSUME TypeOK, HandlersInv, [Next]_vars, NEW h \in Handlers,
         pc'[h] = pc[h], job'[h] = job[h]
  PROVE  HandlerInv(h)'
<1>1. HandlerInv(h)
  BY DEF HandlersInv
<1>2. AllFired => AllFired'
  BY Monotone DEF AllFired
<1>3. \A r \in Rungs : MayFire(r) => MayFire(r)'
  BY MayFireStays
<1>4. job[h].due \in Rungs /\ "standing_rule" \in Rungs /\ "mc_escalation" \in Rungs
  BY DEF TypeOK, Job, Rungs
<1>5. ASSUME NEW rule, \E i \in DOMAIN rows : rows[i].rung = "standing_rule" /\ rows[i].rule = rule
      PROVE  \E i \in DOMAIN rows' : rows'[i].rung = "standing_rule" /\ rows'[i].rule = rule
  BY <1>5, Monotone
<1>6. Winners(rules, visitor)' = Winners(rules, visitor)
  BY Monotone
<1>7. Resolves(job[h].rule)' = Resolves(job[h].rule)
  BY DEF Resolves
<1> QED
  BY <1>1, <1>2, <1>3, <1>4, <1>5, <1>6, <1>7 DEF HandlerInv

(* What the handlers hold in memory stays true of the database.            *)
LEMMA HandlersStep ==
  ASSUME TypeOK, HandlersInv, [Next]_vars
  PROVE  HandlersInv'
<1> USE DEF approvalVars, queueVars, budgets
<1> SUFFICES ASSUME NEW g \in Handlers PROVE HandlerInv(g)'
  BY DEF HandlersInv
<1>0. ASSUME NEW h \in Handlers,
             \/ Request(h) \/ Deliver(h) \/ Step(h) \/ Fail(h),
             g # h
      PROVE  pc'[g] = pc[g] /\ job'[g] = job[g]
  BY <1>0 DEF TypeOK, Step, Goto, Request, Deliver, ReadApproval, ReadRungs, ReadRules, Fire,
              ApplyRule, MarkEscalated, ScheduleNext, Enqueue, Finish, Fail
<1>1. CASE pc'[g] = pc[g] /\ job'[g] = job[g]
  BY <1>1, HandlerStays
<1>2. CASE Request(g)
  <2>1. pc'[g] = "fire" /\ job'[g].rule = NoRule /\ job'[g].due = "push"
    BY <1>2 DEF TypeOK, Request, Goto, IdleJob
  <2>2. now' + ClockSkew >= 0
    BY BoundsAssumption, Monotone
  <2>3. \A s \in Rungs : ~(atSeconds[s] < atSeconds["push"])
    BY LadderFacts
  <2>4. MayFire("push")'
    BY <2>2, <2>3, LadderFacts DEF MayFire
  <2> QED
    BY <2>1, <2>4 DEF HandlerInv
<1>3. CASE Deliver(g)
  <2>1. pc'[g] = "read" /\ job'[g].rule = NoRule
    BY <1>3 DEF TypeOK, Deliver, Goto, IdleJob
  <2> QED
    BY <2>1 DEF HandlerInv
<1>4. CASE ReadApproval(g)
  <2>1. pc'[g] \in {"readRungs", "done"} /\ job'[g] = job[g] /\ pc[g] = "read"
    BY <1>4 DEF TypeOK, ReadApproval, Goto
  <2> QED
    BY <2>1 DEF HandlerInv, HandlersInv
<1>5. CASE ReadRungs(g)
  <2>1. pc[g] = "readRungs" /\ job[g].rule = NoRule
    BY <1>5 DEF ReadRungs, HandlersInv, HandlerInv
  <2>2. CASE pc'[g] = "schedule"
    BY <2>2 DEF HandlerInv
  <2>3. CASE pc'[g] # "schedule"
    <3>1. PICK skew \in (-ClockSkew)..ClockSkew : \E r \in NextRung(FiredRungs, now + skew) :
            /\ job' = [job EXCEPT ![g].due = r]
            /\ Goto(g, IF r = "standing_rule" THEN "readRules" ELSE "fire")
      BY <1>5, <2>3 DEF ReadRungs, Goto, TypeOK
    <3>5. PICK r \in NextRung(FiredRungs, now + skew) :
            /\ job' = [job EXCEPT ![g].due = r]
            /\ Goto(g, IF r = "standing_rule" THEN "readRules" ELSE "fire")
      BY <3>1
    <3>2. r \in Rungs /\ MayFire(r)'
      BY DueMayFire, MayFireStays
    <3>3. job'[g].due = r /\ job'[g].rule = NoRule
      BY <2>1, <3>5 DEF TypeOK, Job
    <3>4. pc'[g] = IF r = "standing_rule" THEN "readRules" ELSE "fire"
      BY <3>5 DEF TypeOK, Goto
    <3> QED
      BY <3>2, <3>3, <3>4 DEF HandlerInv
  <2> QED
    BY <2>2, <2>3
<1>6. CASE ReadRules(g)
  <2>1. /\ pc[g] = "readRules" /\ job[g].rule = NoRule
        /\ job[g].due = "standing_rule" /\ MayFire("standing_rule")
    BY <1>6 DEF ReadRules, HandlersInv, HandlerInv
  <2>2. MayFire("standing_rule")'
    BY <2>1, MayFireStays DEF Rungs
  <2>3. pc'[g] = "fire"
    BY <1>6 DEF TypeOK, ReadRules, Goto
  <2>4. /\ job'[g].due = "standing_rule"
        /\ job'[g].rule = NoRule \/ job'[g].rule \in Winners(rules, visitor)
    BY <1>6, <2>1 DEF TypeOK, ReadRules, OrNone, Job
  <2> QED
    BY <2>2, <2>3, <2>4, Monotone DEF HandlerInv
<1>7. CASE Fire(g)
  <2> DEFINE row == [rung |-> job[g].due, rule |-> job[g].rule]
  <2>1. pc[g] = "fire" /\ job'[g] = job[g] /\ rows' = Append(rows, row)
    BY <1>7 DEF Fire
  <2>2. MayFire(job[g].due) /\ MayFire(job[g].due)'
    BY <2>1, MayFireStays DEF HandlersInv, HandlerInv, TypeOK, Job
  <2>3. row \in Row
    BY DEF TypeOK, Row, Job
  <2>4. FiredRungs' = FiredRungs \cup {job[g].due}
    BY <2>1, <2>3, FiredRungsGrow
  <2>5. pc'[g] = CASE job[g].due = "mc_escalation" -> "escalate"
                   [] job[g].due = "standing_rule" /\ Resolves(job[g].rule) -> "apply"
                   [] OTHER -> "schedule"
    BY <1>7 DEF Fire, Goto, TypeOK
  <2>6. CASE job[g].due = "mc_escalation"
    <3>1. \A s \in Rungs : s # "mc_escalation" => s \in FiredRungs
      BY <2>2, <2>6, LadderFacts DEF MayFire
    <3>2. FiredRungs' = Rungs
      BY <2>4, <2>6, <3>1, Monotone DEF Rungs
    <3>3. pc'[g] = "escalate"
      BY <2>5, <2>6
    <3>4. MayFire("mc_escalation")'
      BY <2>2, <2>6, MayFireStays DEF Rungs
    <3> QED
      BY <3>2, <3>3, <3>4 DEF HandlerInv, AllFired
  <2>7. CASE job[g].due = "standing_rule" /\ Resolves(job[g].rule)
    <3>1. pc'[g] = "apply"
      BY <2>5, <2>7
    <3>2. job[g].rule \in Winners(rules, visitor)
      BY <2>1, <2>7 DEF HandlersInv, HandlerInv, Resolves
    <3>3. \E i \in DOMAIN rows' : rows'[i].rung = "standing_rule" /\ rows'[i].rule = job[g].rule
      <4>1. Len(rows') \in DOMAIN rows' /\ rows'[Len(rows')] = row
        BY <2>1, <2>3, FiredRungsGrow DEF TypeOK
      <4>2. row.rung = "standing_rule" /\ row.rule = job[g].rule
        BY <2>7
      <4> QED
        BY <4>1, <4>2
    <3>4. Resolves(job'[g].rule)
      BY <2>1, <2>7
    <3> QED
      BY <2>1, <2>2, <2>7, <3>1, <3>2, <3>3, <3>4, Monotone DEF HandlerInv, Resolves
  <2>8. CASE pc'[g] = "schedule"
    BY <2>8 DEF HandlerInv
  <2> QED
    BY <2>5, <2>6, <2>7, <2>8
<1>8. CASE ApplyRule(g) \/ MarkEscalated(g) \/ ScheduleNext(g) \/ Enqueue(g) \/ Finish(g) \/ Fail(g)
  <2>1. pc'[g] \in {"done", "idle", "enqueue"}
    BY <1>8 DEF TypeOK, Goto, ApplyRule, MarkEscalated, ScheduleNext, Enqueue, Finish, Fail
  <2> QED
    BY <2>1 DEF HandlerInv
<1>9. CASE (\E r \in People, answer \in Answers : Tap(r, answer)) \/ Tick \/ UNCHANGED vars
  BY <1>1, <1>9 DEF Tap, Tick, vars
<1> QED
  BY <1>0, <1>1, <1>2, <1>3, <1>4, <1>5, <1>6, <1>7, <1>8, <1>9 DEF Next, Step
------------------------------------------------------------------------------
(* Only ReadApproval's guard, StillOpen and Request's guard decide who may *)
(* write the state: once settled, no step of anyone changes it.            *)
LEMMA SettledStays ==
  ASSUME state \in Decided \cup {"escalated"}, [Next]_vars
  PROVE  UNCHANGED <<state, decision>>
<1>1. state # "none" /\ ~StillOpen
  BY DEF Decided, Answers, StillOpen
<1> QED
  BY <1>1 DEF Next, Step, vars, approvalVars, Request, Deliver, ReadApproval, ReadRungs,
              ReadRules, Fire, ApplyRule, MarkEscalated, ScheduleNext, Enqueue, Finish,
              Fail, Tap, Tick, Settle

(* The answer and the taps agree after every step.                         *)
LEMMA AnswersStep ==
  ASSUME IInv, [Next]_vars
  PROVE  AnswersInv'
<1> USE DEF approvalVars, queueVars, budgets, IInv, AnswersInv
<1>1. /\ Winners(rules, visitor)' = Winners(rules, visitor)
      /\ AllFired => AllFired'
      /\ \A rule : (\E i \in DOMAIN rows : rows[i].rung = "standing_rule" /\ rows[i].rule = rule)
           => \E i \in DOMAIN rows' : rows'[i].rung = "standing_rule" /\ rows'[i].rule = rule
  BY Monotone DEF AllFired
<1>2. CASE UNCHANGED <<state, decision, taps>>
  BY <1>1, <1>2
  DEF UnansweredInv, PendingInv, DecisionHasOneAuthor, EscalationIsTheLastResort
<1>3. ASSUME NEW h \in Handlers, Request(h)
      PROVE  AnswersInv'
  BY <1>3 DEF Request, UnansweredInv, PendingInv, DecisionHasOneAuthor, EscalationIsTheLastResort,
              Decided, Answers
<1>4. ASSUME NEW h \in Handlers, ApplyRule(h), StillOpen
      PROVE  AnswersInv'
  <2> DEFINE rule == job[h].rule
  <2>1. /\ Resolves(rule) /\ rule \in Winners(rules, visitor)
        /\ \E i \in DOMAIN rows : rows[i].rung = "standing_rule" /\ rows[i].rule = rule
    BY <1>4 DEF ApplyRule, HandlersInv, HandlerInv
  <2>2. rule \in StandingRule
    BY <2>1, WinnersAreRules DEF TypeOK
  <2>3. /\ state' = OutcomeOfStandingRule[rule.action]
        /\ decision' = [by |-> Nobody, rung |-> "standing_rule", rule |-> rule]
        /\ UNCHANGED taps
    BY <1>4 DEF ApplyRule, Settle
  <2>4. state' \in {"auto_approved", "denied"}
    BY <2>1, <2>2, <2>3, ResolvingOutcome
  <2>5. \A r \in People : taps'[r] # "accepted"
    BY <1>4, <2>3 DEF StillOpen, UnansweredInv, PendingInv, Answers
  <2>6. decision'.by = Nobody /\ decision'.rung = "standing_rule" /\ decision'.rule = rule
    BY <2>3
  <2>7. DecisionHasOneAuthor'
    BY <1>1, <2>1, <2>3, <2>5, <2>6 DEF DecisionHasOneAuthor
  <2> QED
    BY <2>4, <2>5, <2>7 DEF UnansweredInv, PendingInv, EscalationIsTheLastResort
<1>5. ASSUME NEW h \in Handlers, MarkEscalated(h), StillOpen
      PROVE  AnswersInv'
  <2>1. AllFired'
    BY <1>1, <1>5 DEF MarkEscalated, HandlersInv, HandlerInv
  <2>2. state' = "escalated" /\ UNCHANGED taps
    BY <1>5 DEF MarkEscalated, Settle
  <2>3. \A r \in People : taps'[r] # "accepted"
    BY <1>5, <2>2 DEF StillOpen, UnansweredInv, PendingInv, Answers
  <2> QED
    BY <2>1, <2>2, <2>3
    DEF UnansweredInv, PendingInv, DecisionHasOneAuthor, EscalationIsTheLastResort, Decided, Answers
<1>6. ASSUME NEW r \in People, NEW answer \in Answers, Tap(r, answer), StillOpen
      PROVE  AnswersInv'
  <2>1. /\ state' = answer /\ decision' = [by |-> r, rung |-> "push", rule |-> NoRule]
        /\ taps' = [taps EXCEPT ![r] = "accepted"]
    BY <1>6 DEF Tap, Settle
  <2>2. \A q \in People : taps[q] # "accepted"
    BY <1>6 DEF StillOpen, UnansweredInv, PendingInv, Answers
  <2>3. \A q \in People : taps'[q] = "accepted" <=> q = r
    BY <2>1, <2>2 DEF TypeOK
  <2>4. decision'.by = r /\ decision'.rung = "push"
    BY <2>1
  <2> QED
    BY <2>1, <2>3, <2>4
    DEF UnansweredInv, PendingInv, DecisionHasOneAuthor, EscalationIsTheLastResort, Answers
<1>7. ASSUME NEW r \in People, NEW answer \in Answers, Tap(r, answer), ~StillOpen
      PROVE  AnswersInv'
  <2>1. /\ taps[r] = "none" /\ UNCHANGED <<state, decision>>
        /\ taps' = [taps EXCEPT ![r] = "refused"]
    BY <1>7 DEF Tap, Settle
  <2>2. \A q \in People : taps'[q] = "accepted" <=> taps[q] = "accepted"
    BY <2>1 DEF TypeOK
  <2> QED
    BY <1>1, <2>1, <2>2 DEF UnansweredInv, PendingInv, DecisionHasOneAuthor, EscalationIsTheLastResort
<1>8. \/ UNCHANGED <<state, decision, taps>>
      \/ \E h \in Handlers : Request(h)
      \/ StillOpen /\ \E h \in Handlers : ApplyRule(h) \/ MarkEscalated(h)
      \/ \E r \in People, answer \in Answers : Tap(r, answer)
  BY DEF Next, Step, vars, Deliver, ReadApproval, ReadRungs, ReadRules, Fire, ApplyRule,
         MarkEscalated, ScheduleNext, Enqueue, Finish, Fail, Tick, Settle
<1> QED
  BY <1>2, <1>3, <1>4, <1>5, <1>6, <1>7, <1>8

(* The invariant holds at first: nothing has been asked.                   *)
LEMMA InitInv ==
  ASSUME Init PROVE IInv
<1>1. IdleJob \in Job
  BY DEF IdleJob, Job, Rungs
<1>2. TypeOK
  BY <1>1, RulesAssumption DEF Init, TypeOK, States, NoDecision, Labels
<1>3. HandlersInv
  BY DEF Init, HandlersInv, HandlerInv
<1>4. AnswersInv
  BY DEF Init, NoDecision, AnswersInv, UnansweredInv, PendingInv,
         DecisionHasOneAuthor, EscalationIsTheLastResort, Decided, Answers
<1> QED
  BY <1>2, <1>3, <1>4 DEF IInv

LEMMA NextInv ==
  ASSUME IInv, [Next]_vars PROVE IInv'
BY TypeStep, HandlersStep, AnswersStep DEF IInv

(* The inductive invariant holds in every reachable state.                 *)
THEOREM Invariance == Spec => []IInv
BY InitInv, NextInv, PTL DEF Spec

(* Every variable keeps its type, whatever handlers die: no row, task or   *)
(* decision is ever malformed.                                             *)
THEOREM TypeCorrect == Spec => []TypeOK
<1>1. IInv => TypeOK
  BY DEF IInv
<1> QED
  BY <1>1, Invariance, PTL

(* The record of an answer and what the people were told agree: one tap    *)
(* was accepted and its person is recorded, or none was and the flat's     *)
(* winning rule is recorded, whatever taps, rules, escalations and crashes *)
(* race (approval.service.ts:137-219).                                     *)
THEOREM DecisionsHaveOneAuthor == Spec => []DecisionHasOneAuthor
<1>1. IInv => DecisionHasOneAuthor
  BY DEF IInv, AnswersInv
<1> QED
  BY <1>1, Invariance, PTL

(* Nobody is handed to the committee before every rung was tried.          *)
THEOREM CommitteeIsLast == Spec => []EscalationIsTheLastResort
<1>1. IInv => EscalationIsTheLastResort
  BY DEF IInv, AnswersInv
<1> QED
  BY <1>1, Invariance, PTL

(* First response wins, for any number of people and handlers.             *)
THEOREM DecisionsAreFinal == Spec => DecisionIsFinal
<1>1. [Next]_vars => [(state \in Decided \cup {"escalated"}) => UNCHANGED <<state, decision>>]_vars
  BY SettledStays
<1> QED
  BY <1>1, PTL DEF Spec, DecisionIsFinal

(* The ladder is climbed one rung after the other and never early.         *)
THEOREM LadderOrder == Spec => LadderIsClimbedInOrder
<1> DEFINE Climb == rows' # rows =>
       LET new == rows'[Len(rows')].rung IN
       /\ now + ClockSkew >= atSeconds[new]
       /\ \A r \in Rungs : atSeconds[r] < atSeconds[new] => r \in FiredRungs
<1>1. ASSUME IInv, [Next]_vars, rows' # rows PROVE Climb
  <2>1. PICK h \in Handlers : Fire(h)
    BY <1>1 DEF Next, Step, vars, approvalVars, Request, Deliver, ReadApproval, ReadRungs,
                ReadRules, ApplyRule, MarkEscalated, ScheduleNext, Enqueue, Finish, Fail,
                Tap, Tick
  <2>2. MayFire(job[h].due)
    BY <1>1, <2>1 DEF Fire, IInv, HandlersInv, HandlerInv
  <2>3. [rung |-> job[h].due, rule |-> job[h].rule] \in Row
    BY <1>1 DEF IInv, TypeOK, Row, Job
  <2>4. rows'[Len(rows')].rung = job[h].due
    BY <1>1, <2>1, <2>3, FiredRungsGrow DEF Fire, IInv
  <2> QED
    BY <2>2, <2>4 DEF MayFire
<1>2. IInv /\ [Next]_vars => [Climb]_vars
  BY <1>1
<1> QED
  BY <1>2, Invariance, PTL DEF Spec, LadderIsClimbedInOrder
------------------------------------------------------------------------------
(* What a winning rule that decides says is the flat's verdict.            *)
LEMMA WinnerIsVerdict ==
  ASSUME TypeOK, NEW rule \in Winners(rules, visitor), Resolves(rule)
  PROVE  Verdict = OutcomeOfStandingRule[rule.action]
<1> DEFINE chosen == CHOOSE w \in Winners(rules, visitor) : TRUE
<1>1. chosen \in Winners(rules, visitor)
  OBVIOUS
<1>2. chosen.action = rule.action
  BY <1>1, WinnersAgree DEF TypeOK
<1> QED
  BY <1>2 DEF Verdict, VerdictOf

(* Every step of the ladder is a step of the promise, or none of its       *)
(* business.                                                               *)
LEMMA StepImplementsPromise ==
  ASSUME IInv, [Next]_vars
  PROVE  [Promise!Next]_Promise!vars
<1> USE DEF approvalVars, queueVars, budgets, IInv
<1>1. Verdict' = Verdict
  BY Monotone DEF Verdict
<1>2. CASE UNCHANGED <<now, state, decision>>
  BY <1>1, <1>2 DEF Promise!vars
<1>3. ASSUME NEW h \in Handlers, Request(h) PROVE Promise!Next
  BY <1>1, <1>3 DEF Request, Promise!Next, Promise!Ask
<1>4. ASSUME NEW h \in Handlers, ApplyRule(h), StillOpen PROVE Promise!Next
  <2>1. /\ Resolves(job[h].rule) /\ job[h].rule \in Winners(rules, visitor)
        /\ MayFire("standing_rule")
    BY <1>4 DEF ApplyRule, HandlersInv, HandlerInv
  <2>2. Verdict = OutcomeOfStandingRule[job[h].rule.action] /\ Verdict # "pending"
    BY <2>1, WinnerIsVerdict DEF Resolves
  <2>3. now >= atSeconds["standing_rule"] - ClockSkew
    BY <2>1, BoundsAssumption, LadderFacts DEF MayFire, TypeOK, Rungs
  <2>4. state = "pending" /\ state' = Verdict /\ UNCHANGED now
    BY <1>4, <2>2 DEF ApplyRule, Settle, StillOpen
  <2>5. decision.by = Nobody /\ decision'.by = Nobody
    BY <1>4 DEF ApplyRule, Settle, StillOpen, AnswersInv, PendingInv
  <2> QED
    BY <1>1, <2>2, <2>3, <2>4, <2>5 DEF Promise!Next, Promise!RuleAnswers
<1>5. ASSUME NEW h \in Handlers, MarkEscalated(h), StillOpen PROVE Promise!Next
  <2>1. MayFire("mc_escalation")
    BY <1>5 DEF MarkEscalated, HandlersInv, HandlerInv
  <2>2. now >= atSeconds["mc_escalation"] - ClockSkew
    BY <2>1, BoundsAssumption, LadderFacts DEF MayFire, TypeOK, Rungs
  <2> QED
    BY <1>1, <1>5, <2>2 DEF MarkEscalated, Settle, StillOpen, Promise!Next, Promise!HandOver
<1>6. ASSUME NEW r \in People, NEW answer \in Answers, Tap(r, answer), StillOpen
      PROVE  Promise!Next
  BY <1>1, <1>6 DEF Tap, Settle, StillOpen, Answers, Promise!Next, Promise!PersonAnswers
<1>7. ASSUME Tick PROVE Promise!Next
  <2>1. now' > now
    BY <1>7, InstantsAssumption DEF Tick, TypeOK
  <2> QED
    BY <1>1, <1>7, <2>1 DEF Tick, Promise!Next, Promise!Wait
<1>8. \/ UNCHANGED <<now, state, decision>>
      \/ \E h \in Handlers : Request(h)
      \/ StillOpen /\ \E h \in Handlers : ApplyRule(h) \/ MarkEscalated(h)
      \/ StillOpen /\ \E r \in People, answer \in Answers : Tap(r, answer)
      \/ Tick
  BY DEF Next, Step, vars, Deliver, ReadApproval, ReadRungs, ReadRules, Fire, ApplyRule,
         MarkEscalated, ScheduleNext, Enqueue, Finish, Fail, Tap, Settle
<1> QED
  BY <1>2, <1>3, <1>4, <1>5, <1>6, <1>7, <1>8

(* The ladder keeps the promise: its handlers, rungs, rows, retries and    *)
(* crashes are invisible to the guard, the residents and the committee.    *)
THEOREM Implementation == Spec => ImplementsPromise
<1>1. Init => Promise!Init
  <2> SUFFICES ASSUME Init PROVE Promise!Init
    OBVIOUS
  <2>1. \A rule \in StandingRule :
          OutcomeOfStandingRule[rule.action] \in {"auto_approved", "denied", "pending"}
    BY DEF StandingRule, Actions, OutcomeOfStandingRule
  <2>2. Winners(rules, visitor) \subseteq StandingRule
    BY InitInv, WinnersAreRules DEF IInv, TypeOK
  <2>3. Verdict \in {"auto_approved", "denied", "pending"}
    BY <2>1, <2>2 DEF Verdict, VerdictOf
  <2> QED
    BY <2>3 DEF Init, NoDecision, Promise!Init
<1>2. IInv /\ [Next]_vars => [Promise!Next]_Promise!vars
  BY StepImplementsPromise
<1> QED
  BY <1>1, <1>2, Invariance, PTL DEF Spec, ImplementsPromise, Promise!Spec
------------------------------------------------------------------------------
(* Why the ladder goes on.  While nothing has gone wrong that ends it, the *)
(* task with the highest name stays in the queue: a handler answers 200    *)
(* only for a task that a later one has replaced.                          *)
Going ==
  /\ state = "pending" /\ ~AllFired
  /\ ClockSkew = 0 /\ refusals = 0 /\ failures < MaxAttempts

(* Rung r, the next to fire, is due at any time from `at` on - unless a    *)
(* rung has fired since the task was named.                                *)
DueBy(name, at) ==
  /\ name \in 0..Len(rows)
  /\ name = Len(rows) => \A r \in FirstUnfired(FiredRungs) : atSeconds[r] <= at

(* Before the guard asks there is nothing.                                 *)
NothingYet ==
  state = "none" => queue = {} /\ names = {} /\ \A h \in Handlers : pc[h] = "idle"

(* A task is named for rows that exist, comes due no earlier than the rung *)
(* it is for, and has lost an attempt only to a handler that failed.       *)
TaskInv(t) == t.name \in names /\ DueBy(t.name, t.at) /\ t.attempts <= failures
TasksInv == /\ \A n \in names : n \in 1..Len(rows)
            /\ \A t \in queue : TaskInv(t)

(* A handler's task is replaced by a later one before it is completed.     *)
HandsOnInv(h) ==
  /\ job[h].task \in 0..Len(rows)
  /\ pc[h] \in {"read", "readRungs"} => DueBy(job[h].task, now)
  /\ pc[h] \in {"read", "readRungs", "schedule"} => Len(rows) >= 1
  /\ pc[h] = "enqueue" => job[h].name \in 1..Len(rows) /\ DueBy(job[h].name, job[h].at)
  /\ Going => /\ pc[h] = "schedule" => job[h].task < Len(rows)
              /\ pc[h] = "enqueue" => job[h].task < job[h].name
              /\ pc[h] = "done" => \E n \in names : job[h].task < n

AllHandOn == \A h \in Handlers : HandsOnInv(h)

LastTaskIsQueued ==
  Going /\ names # {} => \E t \in queue : \A n \in names : n <= t.name

DrivenInv == NothingYet /\ TasksInv /\ AllHandOn /\ LastTaskIsQueued

(* The first unfired rung exists while there is an unfired one.            *)
LEMMA SomeRungIsNext ==
  ASSUME TypeOK, ~AllFired, FiredRungs \subseteq Rungs
  PROVE  FirstUnfired(FiredRungs) # {}
<1> DEFINE left == Rungs \ FiredRungs
<1>1. CASE "push" \in left
  BY <1>1, LadderFacts DEF FirstUnfired
<1>2. CASE "push" \notin left /\ "ivr" \in left
  BY <1>2 DEF FirstUnfired, Rungs, atSeconds
<1>3. CASE "push" \notin left /\ "ivr" \notin left /\ "standing_rule" \in left
  BY <1>3 DEF FirstUnfired, Rungs, atSeconds
<1>4. CASE left = {"mc_escalation"}
  BY <1>4, LadderFacts DEF FirstUnfired, Rungs
<1>5. left # {} /\ left \subseteq Rungs
  BY DEF AllFired
<1> QED
  BY <1>1, <1>2, <1>3, <1>4, <1>5 DEF Rungs

(* Rows are only added, one at a time, and only by Fire.                   *)
LEMMA RowsGrow ==
  ASSUME TypeOK, [Next]_vars
  PROVE  \/ UNCHANGED rows
         \/ /\ \E h \in Handlers : Fire(h)
            /\ Len(rows') = Len(rows) + 1
<1> USE DEF approvalVars, queueVars, budgets
<1>1. ASSUME NEW h \in Handlers, Fire(h) PROVE Len(rows') = Len(rows) + 1
  BY <1>1 DEF Fire, TypeOK
<1> QED
  BY <1>1 DEF Next, Step, vars, Request, Deliver, ReadApproval, ReadRungs, ReadRules,
         ApplyRule, MarkEscalated, ScheduleNext, Enqueue, Finish, Fail, Tap, Tick

(* What is due by some time stays due from then on.                        *)
LEMMA DueByStays ==
  ASSUME TypeOK, [Next]_vars, NEW name, NEW at \in Int, NEW later \in Int,
         at <= later, DueBy(name, at)
  PROVE  DueBy(name, later)'
<1>0. Len(rows) \in Nat
  BY DEF TypeOK
<1>1. CASE UNCHANGED rows
  <2>1. UNCHANGED FiredRungs
    BY <1>1 DEF FiredRungs
  <2>2. \A r \in FirstUnfired(FiredRungs) : atSeconds[r] \in Nat
    BY LadderFacts DEF FirstUnfired
  <2> QED
    BY <1>0, <1>1, <2>1, <2>2 DEF DueBy
<1>2. CASE Len(rows') = Len(rows) + 1
  BY <1>0, <1>2 DEF DueBy
<1> QED
  BY <1>1, <1>2, RowsGrow

(* What ends the ladder is never undone.                                   *)
LEMMA GoingBefore ==
  ASSUME TypeOK, HandlersInv, [Next]_vars, Going'
  PROVE  Going \/ state = "none"
<1> USE DEF approvalVars, queueVars, budgets
<1>1. ~AllFired
  BY Monotone DEF Going, AllFired
<1>2. failures' \in {failures, failures + 1} /\ refusals' \in {refusals, refusals + 1}
  BY DEF Next, Step, vars, Request, Deliver, ReadApproval, ReadRungs, ReadRules, Fire,
         ApplyRule, MarkEscalated, ScheduleNext, Enqueue, Finish, Fail, Tap, Tick
<1>3. state \in {"none", "pending"}
  BY SettledStays DEF Going, TypeOK, States, Decided, Answers
<1>4. refusals = 0 /\ failures < MaxAttempts
  BY <1>2, BoundsAssumption DEF Going, TypeOK
<1> QED
  BY <1>1, <1>3, <1>4 DEF Going

(* Before the guard asks, nothing but the request happens.                 *)
LEMMA NothingYetStep ==
  ASSUME TypeOK, HandlersInv, NothingYet, [Next]_vars
  PROVE  NothingYet'
<1> USE DEF approvalVars, queueVars, budgets
<1> SUFFICES ASSUME state' = "none" PROVE NothingYet'
  BY DEF NothingYet
<1>1. ASSUME NEW h \in Handlers, Step(h), state = "none" PROVE FALSE
  BY <1>1 DEF NothingYet, Step, ReadApproval, ReadRungs, ReadRules, Fire, ApplyRule,
              MarkEscalated, ScheduleNext, Enqueue, Finish
<1>2. state = "none"
  <2>1. ASSUME state # "none" PROVE FALSE
    <3>1. ASSUME NEW h \in Handlers, ApplyRule(h) PROVE FALSE
      <4>1. Resolves(job[h].rule) /\ job[h].rule \in StandingRule
        BY <3>1 DEF ApplyRule, HandlersInv, HandlerInv, TypeOK, Resolves, Job
      <4> QED
        BY <2>1, <3>1, <4>1, ResolvingOutcome DEF ApplyRule, Settle
    <3> QED
      BY <2>1, <3>1 DEF Next, Step, vars, Request, Deliver, ReadApproval, ReadRungs, ReadRules,
         Fire, MarkEscalated, ScheduleNext, Enqueue, Finish, Fail, Tap, Tick, Settle, Answers
  <2> QED
    BY <2>1
<1> QED
  BY <1>1, <1>2 DEF NothingYet, Next, Request, Deliver, Fail, Tap, Tick, vars, queueVars

(* A task keeps its invariant while it is in the queue and names only grow.*)
LEMMA TaskStays ==
  ASSUME TypeOK, [Next]_vars, NEW t \in Task, TaskInv(t),
         names \subseteq names', failures <= failures', failures' \in Nat
  PROVE  TaskInv(t)'
<1>1. DueBy(t.name, t.at)'
  BY DueByStays DEF TaskInv, Task
<1> QED
  BY <1>1 DEF TaskInv, Task, TypeOK

(* Who writes the queue.                                                   *)
LEMMA WhoWritesTheQueue ==
  ASSUME [Next]_vars
  PROVE  \/ UNCHANGED <<queueVars, budgets>>
         \/ \E h \in Handlers : Enqueue(h) \/ Finish(h) \/ Fail(h)
BY DEF Next, Step, vars, approvalVars, queueVars, budgets, Request, Deliver, ReadApproval,
       ReadRungs, ReadRules, Fire, ApplyRule, MarkEscalated, ScheduleNext, Tap, Tick

LEMMA TasksStep ==
  ASSUME TypeOK, TasksInv, AllHandOn, [Next]_vars
  PROVE  TasksInv'
<1> USE DEF queueVars, budgets
<1>0. Len(rows) \in Nat /\ Len(rows') >= Len(rows) /\ Len(rows') \in Nat
  BY RowsGrow DEF TypeOK
<1>1. ASSUME NEW t \in queue, names \subseteq names', failures' = failures PROVE TaskInv(t)'
  BY <1>1, TaskStays DEF TypeOK, TasksInv
<1>2. CASE UNCHANGED <<queueVars, budgets>>
  BY <1>0, <1>1, <1>2 DEF TasksInv
<1>3. ASSUME NEW h \in Handlers, Enqueue(h) PROVE TasksInv'
  <2>1. PICK name \in 1..Len(rows), at \in Nat :
          name = job[h].name /\ at = job[h].at /\ DueBy(name, at)
    BY <1>3 DEF Enqueue, AllHandOn, HandsOnInv, TypeOK, Job
  <2>2. PICK new : new = [name |-> name, at |-> at, attempts |-> 0]
    OBVIOUS
  <2>3. names \subseteq names' /\ failures' = failures /\ names' \subseteq names \cup {name}
    BY <1>3, <2>1 DEF Enqueue
  <2>4. \A t \in queue' : t \in queue \/ (t = new /\ name \in names')
    BY <1>3, <2>1, <2>2 DEF Enqueue
  <2>5. \A t \in queue' : TaskInv(t)'
    <3>1. DueBy(name, at)'
      BY <2>1, DueByStays
    <3>2. new.name = name /\ new.at = at /\ new.attempts <= failures'
      BY <2>2, <2>3 DEF TypeOK
    <3> QED
      BY <1>1, <2>3, <2>4, <3>1, <3>2 DEF TaskInv
  <2>6. \A n \in names' : n \in 1..Len(rows')
    BY <1>0, <2>1, <2>3 DEF TasksInv
  <2> QED
    BY <2>5, <2>6 DEF TasksInv
<1>4. ASSUME NEW h \in Handlers, Finish(h) PROVE TasksInv'
  BY <1>0, <1>1, <1>4 DEF Finish, TasksInv
<1>5. ASSUME NEW h \in Handlers, Fail(h) PROVE TasksInv'
  <2>1. names' = names /\ failures' = failures + 1
    BY <1>5 DEF Fail
  <2>2. \A t \in queue' : t \in queue \/ \E u \in queue : t = Retried(u)
    BY <1>5 DEF Fail
  <2>3. ASSUME NEW u \in queue PROVE TaskInv(u)' /\ TaskInv(Retried(u))'
    <3>1. u \in Task /\ TaskInv(u)
      BY DEF TypeOK, TasksInv
    <3>2. TaskInv(u)'
      BY <2>1, <3>1, TaskStays DEF TypeOK
    <3>3. /\ Retried(u).name = u.name /\ Retried(u).at = u.at
          /\ Retried(u).attempts = u.attempts + 1
      BY <3>1 DEF Retried, Task
    <3>4. Retried(u).attempts <= failures'
      BY <2>1, <3>1, <3>3 DEF TaskInv, Task, TypeOK
    <3> QED
      BY <3>2, <3>3, <3>4 DEF TaskInv
  <2> QED
    BY <1>0, <2>1, <2>2, <2>3 DEF TasksInv
<1> QED
  BY <1>2, <1>3, <1>4, <1>5, WhoWritesTheQueue

(* A step that leaves a handler alone leaves its task as replaced as it was.*)
LEMMA HandsOnStays ==
  ASSUME IInv, DrivenInv, [Next]_vars, NEW h \in Handlers,
         pc'[h] = pc[h], job'[h] = job[h]
  PROVE  HandsOnInv(h)'
<1> USE DEF IInv, DrivenInv, AllHandOn
<1>1. PICK j \in Job : j = job[h]
  BY DEF TypeOK
<1>2. Len(rows) \in Nat /\ Len(rows') \in Nat /\ Len(rows') >= Len(rows)
  BY RowsGrow DEF TypeOK
<1>3. names \subseteq names'
  BY WhoWritesTheQueue DEF queueVars, Enqueue, Finish, Fail
<1>4. PICK later \in Nat : later = now' /\ now <= later
  BY Monotone
<1>5. pc[h] \in {"read", "readRungs"} => DueBy(j.task, later)'
  BY <1>1, <1>4, DueByStays DEF HandsOnInv, TypeOK
<1>6. pc[h] = "enqueue" => DueBy(j.name, j.at)'
  BY <1>1, DueByStays DEF HandsOnInv, Job
<1>7. Going' => Going \/ pc[h] = "idle"
  BY GoingBefore DEF NothingYet
<1>8. job'[h] = j /\ HandsOnInv(h)
  BY <1>1
<1>9. /\ j.task \in 0..Len(rows') /\ (pc[h] = "enqueue" => j.name \in 1..Len(rows'))
      /\ pc[h] \in {"read", "readRungs", "schedule"} => Len(rows') >= 1
  BY <1>1, <1>2, <1>8 DEF HandsOnInv
<1>10. Going' => /\ pc[h] = "schedule" => j.task < Len(rows')
                 /\ pc[h] = "enqueue" => j.task < j.name
                 /\ pc[h] = "done" => \E n \in names' : j.task < n
  BY <1>1, <1>2, <1>3, <1>7, <1>8 DEF HandsOnInv, Job
<1> QED
  BY <1>4, <1>5, <1>6, <1>8, <1>9, <1>10 DEF HandsOnInv, DueBy

LEMMA HandsOnStep ==
  ASSUME IInv, DrivenInv, [Next]_vars
  PROVE  AllHandOn'
<1> USE DEF approvalVars, queueVars, budgets, IInv, DrivenInv
<1> SUFFICES ASSUME NEW g \in Handlers PROVE HandsOnInv(g)'
  BY DEF AllHandOn
<1>0. ASSUME NEW h \in Handlers,
             \/ Request(h) \/ Deliver(h) \/ Step(h) \/ Fail(h),
             g # h
      PROVE  pc'[g] = pc[g] /\ job'[g] = job[g]
  BY <1>0 DEF TypeOK, Step, Goto, Request, Deliver, ReadApproval, ReadRungs, ReadRules, Fire,
              ApplyRule, MarkEscalated, ScheduleNext, Enqueue, Finish, Fail
<1>1. CASE pc'[g] = pc[g] /\ job'[g] = job[g]
  BY <1>1, HandsOnStays
<1>2. PICK j \in Job : j = job[g]
  BY DEF TypeOK
<1>3. j.task \in 0..Len(rows) /\ Len(rows) \in Nat
  BY <1>2 DEF AllHandOn, HandsOnInv, TypeOK
<1>4. pc[g] # "idle" => (Going' => Going)
  BY GoingBefore DEF NothingYet
<1>5. CASE Request(g) \/ Fail(g)
  <2>1. pc'[g] \in {"fire", "idle"} /\ job'[g].task = 0 /\ rows' = rows
    BY <1>5 DEF TypeOK, Request, Fail, Goto, IdleJob
  <2> QED
    BY <1>3, <2>1 DEF HandsOnInv
<1>6. CASE Deliver(g)
  <2>1. PICK t \in queue : now >= t.at /\ job'[g].task = t.name
    BY <1>6 DEF Deliver, TypeOK, IdleJob
  <2>2. pc'[g] = "read" /\ UNCHANGED <<now, rows>>
    BY <1>6 DEF Deliver, TypeOK, Goto
  <2>3. t \in Task /\ DueBy(t.name, t.at) /\ Len(rows) >= 1
    <3>1. t \in Task
      BY <2>1 DEF TypeOK
    <3>2. DueBy(t.name, t.at) /\ t.name \in 1..Len(rows)
      BY <2>1 DEF TasksInv, TaskInv
    <3> QED
      BY <1>3, <3>1, <3>2
  <2>4. PICK later \in Nat : later = now
    BY DEF TypeOK
  <2>5. DueBy(t.name, later)'
    BY <2>1, <2>3, <2>4, DueByStays DEF Task
  <2> QED
    BY <2>1, <2>2, <2>3, <2>4, <2>5 DEF HandsOnInv, DueBy
<1>7. CASE ReadApproval(g)
  <2>1. /\ pc[g] = "read" /\ job'[g] = job[g] /\ UNCHANGED <<now, rows, state>>
        /\ pc'[g] = IF state = "pending" THEN "readRungs" ELSE "done"
    BY <1>7 DEF ReadApproval, TypeOK, Goto
  <2>2. DueBy(j.task, now) /\ Len(rows) >= 1
    BY <1>2, <2>1 DEF AllHandOn, HandsOnInv
  <2>3. DueBy(j.task, now)' /\ FiredRungs' = FiredRungs
    BY <2>1, <2>2 DEF DueBy, FiredRungs
  <2> QED
    BY <1>2, <1>3, <2>1, <2>2, <2>3 DEF HandsOnInv, DueBy, Going
<1>8. CASE ReadRungs(g)
  <2>1. pc[g] = "readRungs" /\ rows' = rows /\ job'[g].task = j.task /\ Len(rows) >= 1
    BY <1>2, <1>8 DEF ReadRungs, TypeOK, Job, AllHandOn, HandsOnInv
  <2>2. CASE pc'[g] = "schedule"
    <3>1. ASSUME Going' PROVE j.task < Len(rows)
      <4>1. Going /\ DueBy(j.task, now)
        BY <1>2, <1>4, <2>1, <3>1 DEF AllHandOn, HandsOnInv
      <4>2. PICK skew \in (-ClockSkew)..ClockSkew : NextRung(FiredRungs, now + skew) = {}
        BY <1>8, <2>2 DEF ReadRungs, Goto, TypeOK
      <4>3. skew = 0
        BY <4>1, <4>2 DEF Going
      <4>4. PICK r \in FirstUnfired(FiredRungs) : TRUE
        BY <4>1, SomeRungIsNext, Monotone DEF Going
      <4>5. atSeconds[r] \in Nat /\ now \in Nat
        BY LadderFacts DEF FirstUnfired, TypeOK
      <4>6. atSeconds[r] > now
        BY <4>2, <4>3, <4>4, <4>5 DEF NextRung, IsDue
      <4> QED
        BY <1>3, <4>1, <4>4, <4>5, <4>6 DEF DueBy
    <3> QED
      BY <1>3, <2>1, <2>2, <3>1 DEF HandsOnInv
  <2>3. CASE pc'[g] # "schedule"
    <3>1. pc'[g] \in {"readRules", "fire"}
      BY <1>8, <2>3 DEF ReadRungs, Goto, TypeOK
    <3> QED
      BY <1>3, <2>1, <3>1 DEF HandsOnInv
  <2> QED
    BY <2>2, <2>3
<1>9. CASE ReadRules(g)
  <2>1. pc'[g] = "fire" /\ job'[g].task = j.task /\ rows' = rows
    BY <1>2, <1>9 DEF ReadRules, Goto, TypeOK, Job
  <2> QED
    BY <1>3, <2>1 DEF HandsOnInv
<1>10. CASE Fire(g)
  <2>1. pc'[g] \in {"escalate", "apply", "schedule"} /\ job'[g].task = j.task
    BY <1>2, <1>10 DEF Fire, Goto, TypeOK
  <2>2. Len(rows') = Len(rows) + 1
    BY <1>10 DEF Fire, TypeOK
  <2> QED
    BY <1>3, <2>1, <2>2 DEF HandsOnInv
<1>11. CASE ApplyRule(g) \/ MarkEscalated(g)
  <2>1. pc'[g] = "done" /\ job'[g] = job[g] /\ rows' = rows
    BY <1>11 DEF ApplyRule, MarkEscalated, Goto, TypeOK
  <2>2. state' # "pending"
    <3>1. ASSUME ApplyRule(g) PROVE state' # "pending"
      BY <3>1 DEF ApplyRule, Settle, StillOpen, HandlersInv, HandlerInv, Resolves
    <3>2. ASSUME MarkEscalated(g) PROVE state' # "pending"
      BY <3>2 DEF MarkEscalated, Settle, StillOpen
    <3> QED
      BY <1>11, <3>1, <3>2
  <2> QED
    BY <1>2, <1>3, <2>1, <2>2 DEF HandsOnInv, Going
<1>12. CASE ScheduleNext(g)
  <2>1. pc[g] = "schedule" /\ UNCHANGED <<rows, state>> /\ FiredRungs' = FiredRungs
    BY <1>12 DEF ScheduleNext, FiredRungs
  <2>2. CASE AllFired
    <3>1. ~Going'
      BY <2>1, <2>2 DEF Going, AllFired
    <3>2. CASE pc'[g] = "done" /\ job'[g] = job[g]
      BY <1>2, <1>3, <2>1, <3>1, <3>2 DEF HandsOnInv
    <3>3. \A r \in FirstUnfired(FiredRungs) : FALSE
      BY <2>2 DEF AllFired, FirstUnfired
    <3> QED
      BY <1>12, <3>2, <3>3 DEF ScheduleNext, Goto, TypeOK
  <2>3. CASE ~AllFired
    <3>1. PICK r \in FirstUnfired(FiredRungs) :
            /\ job' = [job EXCEPT ![g].name = Len(rows), ![g].at = atSeconds[r]]
            /\ Goto(g, "enqueue")
      BY <1>12, <2>3 DEF ScheduleNext
    <3>2. /\ pc'[g] = "enqueue" /\ job'[g].task = j.task /\ job'[g].name = Len(rows)
          /\ job'[g].at = atSeconds[r]
      BY <1>2, <3>1 DEF Goto, TypeOK, Job
    <3>3. \A s \in FirstUnfired(FiredRungs) : atSeconds[s] <= atSeconds[r]
      BY <3>1 DEF FirstUnfired
    <3>4. Going' => j.task < Len(rows)
      BY <1>2, <1>4, <2>1 DEF AllHandOn, HandsOnInv
    <3>5. Len(rows) >= 1
      BY <2>1 DEF AllHandOn, HandsOnInv
    <3> QED
      BY <1>3, <2>1, <3>2, <3>3, <3>4, <3>5 DEF HandsOnInv, DueBy
  <2> QED
    BY <2>2, <2>3
<1>13. CASE Enqueue(g)
  <2>1. /\ pc[g] = "enqueue" /\ pc'[g] = "done" /\ job'[g] = job[g] /\ rows' = rows
    BY <1>13 DEF Enqueue, Goto, TypeOK
  <2>2. ASSUME Going' PROVE j.task < j.name /\ j.name \in names'
    <3>1. j.task < j.name
      BY <1>2, <1>4, <2>1, <2>2 DEF AllHandOn, HandsOnInv
    <3>2. refusals' = 0 /\ refusals \in Nat
      BY <2>2 DEF Going, TypeOK
    <3> QED
      BY <1>2, <1>13, <3>1, <3>2 DEF Enqueue
  <2> QED
    BY <1>2, <1>3, <2>1, <2>2 DEF HandsOnInv
<1>14. CASE Finish(g)
  <2>1. pc'[g] = "idle" /\ job'[g].task = 0 /\ rows' = rows
    BY <1>14 DEF Finish, TypeOK, Goto, IdleJob
  <2> QED
    BY <1>3, <2>1 DEF HandsOnInv
<1>15. CASE (\E r \in People, answer \in Answers : Tap(r, answer)) \/ Tick \/ UNCHANGED vars
  BY <1>1, <1>15 DEF Tap, Tick, vars
<1> QED
  BY <1>0, <1>1, <1>5, <1>6, <1>7, <1>8, <1>9, <1>10, <1>11, <1>12, <1>13, <1>14, <1>15
  DEF Next, Step

(* The task with the highest name stays in the queue until a higher one is.*)
LEMMA LastTaskStep ==
  ASSUME IInv, DrivenInv, [Next]_vars
  PROVE  LastTaskIsQueued'
<1> USE DEF approvalVars, queueVars, budgets, IInv, DrivenInv
<1> SUFFICES ASSUME Going', names' # {}
             PROVE  \E t \in queue' : \A n \in names' : n <= t.name
  BY DEF LastTaskIsQueued
<1>1. Going
  <2>1. ASSUME state = "none" PROVE names' = {}
    BY <2>1, WhoWritesTheQueue DEF NothingYet, Enqueue, Finish, Fail
  <2> QED
    BY <2>1, GoingBefore
<1>2. names # {} => \E t \in queue : \A n \in names : n <= t.name
  BY <1>1 DEF LastTaskIsQueued
<1>3. names \subseteq Nat /\ \A t \in queue : t.name \in Nat
  BY DEF TypeOK, Task
<1>4. CASE UNCHANGED <<queueVars, budgets>>
  BY <1>2, <1>4
<1>5. ASSUME NEW h \in Handlers, Enqueue(h)
      PROVE  \E t \in queue' : \A n \in names' : n <= t.name
  <2>1. CASE UNCHANGED queueVars
    BY <1>2, <2>1
  <2>2. CASE ~UNCHANGED queueVars
    <3>1. PICK new : new = [name |-> job[h].name, at |-> job[h].at, attempts |-> 0]
      OBVIOUS
    <3>2. queue' = queue \cup {new} /\ names' = names \cup {new.name} /\ new.name \in Nat
      BY <1>5, <2>2, <3>1 DEF Enqueue, TypeOK, Job
    <3>3. CASE \A n \in names : n <= new.name
      BY <3>2, <3>3
    <3>4. CASE ~\A n \in names : n <= new.name
      <4>1. PICK n \in names : new.name < n
        BY <1>3, <3>2, <3>4
      <4>2. PICK t \in queue : \A m \in names : m <= t.name
        BY <1>2, <4>1
      <4>3. new.name <= t.name
        BY <1>3, <3>2, <4>1, <4>2
      <4> QED
        BY <3>2, <4>2, <4>3
    <3> QED
      BY <3>3, <3>4
  <2> QED
    BY <2>1, <2>2
<1>6. ASSUME NEW h \in Handlers, Finish(h)
      PROVE  \E t \in queue' : \A n \in names' : n <= t.name
  <2>1. /\ pc[h] = "done" /\ names' = names
        /\ queue' = {t \in queue : t.name # job[h].task}
    BY <1>6 DEF Finish
  <2>2. PICK m \in names : job[h].task < m
    BY <1>1, <2>1 DEF AllHandOn, HandsOnInv
  <2>3. PICK t \in queue : \A n \in names : n <= t.name
    BY <1>2, <2>2
  <2>4. t.name # job[h].task
    BY <1>3, <2>2, <2>3 DEF TypeOK, Job
  <2> QED
    BY <2>1, <2>3, <2>4
<1>7. ASSUME NEW h \in Handlers, Fail(h)
      PROVE  \E t \in queue' : \A n \in names' : n <= t.name
  <2>1. names' = names /\ failures' = failures + 1
    BY <1>7 DEF Fail
  <2>2. PICK t \in queue : \A n \in names : n <= t.name
    BY <1>2, <2>1
  <2>3. t \in Task /\ t.attempts <= failures
    BY DEF TypeOK, TasksInv, TaskInv
  <2>4. t.attempts + 1 < MaxAttempts
    BY <2>1, <2>3, BoundsAssumption DEF Going, Task, TypeOK
  <2>5. Retried(t).name = t.name
    BY <2>3 DEF Retried, Task
  <2>6. t \in queue' \/ Retried(t) \in queue'
    BY <1>7, <2>4 DEF Fail
  <2> QED
    BY <2>1, <2>2, <2>5, <2>6
<1> QED
  BY <1>4, <1>5, <1>6, <1>7, WhoWritesTheQueue

LEMMA DrivenStep ==
  ASSUME IInv, DrivenInv, [Next]_vars PROVE DrivenInv'
BY NothingYetStep, TasksStep, HandsOnStep, LastTaskStep DEF IInv, DrivenInv

LEMMA InitDriven ==
  ASSUME Init PROVE DrivenInv
BY DEF Init, DrivenInv, NothingYet, TasksInv, AllHandOn, HandsOnInv, LastTaskIsQueued, IdleJob

(* The visitor is never forgotten: for any number of handlers, people      *)
(* and deliveries, and with handlers dying at any of their steps, the      *)
(* queue holds a task while the ladder has rungs left, provided that it    *)
(* took every task and has attempts left, and that the clocks agree        *)
(* (approval.service.ts:89-99 and :306-330).                               *)
THEOREM VisitorIsNotForgotten == Spec => []PendingIsDriven
<1>1. Init => DrivenInv
  BY InitDriven
<1>2. IInv /\ DrivenInv /\ [Next]_vars => DrivenInv'
  BY DrivenStep
<1>3. DrivenInv => PendingIsDriven
  BY DEF DrivenInv, LastTaskIsQueued, Going, PendingIsDriven
<1> QED
  BY <1>1, <1>2, <1>3, Invariance, PTL DEF Spec
==============================================================================
