------------------------------ MODULE MCHelpdesk ------------------------------
EXTENDS Helpdesk

(* The lift of one tower, reported in two ways that share half of their    *)
(* words.                                                                  *)
Report(words) == [place |-> "lift", words |-> words, inUnit |-> FALSE]
McReports == {Report({"light"}), Report({"light", "dark"})}

(* Requests are scarce, so a run also starts where three or four of them   *)
(* lead: a complaint that is late but has its photo of the repair, before  *)
(* it is resolved, or escalated and resolved.                              *)
Photographed ==
  \E person \in Persons, status \in {"in_progress", "resolved"} :
    LET date == IF status = "resolved" THEN 1 ELSE Never IN
    /\ now = 1
    /\ tickets = <<[Ticket(Report({"light"}), person, 0)
                      EXCEPT !.status = status, !.resolvedAt = date, !.escalatedAt = date]>>
    /\ attached = <<[proof |-> 1, other |-> 0]>>
    /\ subscribers = <<{person}>>
    /\ job = [h \in Handlers |-> NoJob]
    /\ sweep = [s \in Sweepers |-> NoSweep]
    /\ requests = 0 /\ crashes = 0
    /\ overtaken = {} /\ settled = (IF status = "resolved" THEN {1} ELSE {}) /\ raced = FALSE

McSpec == (Init \/ Photographed) /\ [][Next]_vars /\ Fairness
===============================================================================
