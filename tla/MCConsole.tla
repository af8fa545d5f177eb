------------------------------ MODULE MCConsole ------------------------------
EXTENDS Console

Visit(roles, p, names) == [held |-> roles, page |-> p, presses |-> names]

(* A committee member at the gate page, which asks by itself and of which  *)
(* something can be chosen; an accountant at the books, whose banner is    *)
(* taken down.                                                             *)
McBusyVisits ==
  {Visit({"mc_member"}, "gate", {"IssuePass"}),
   Visit({"society_admin", "accountant"}, "books", {"LockButton"}),
   Visit({"mc_member"}, "parking", {"AllotSlot"})}

(* Everybody else opens every page and presses everything on it.           *)
McVisits ==
  McBusyVisits \cup
  {Visit({r}, p, DOMAIN PageOf[p].offers) :
     r \in {"society_admin", "accountant", "guard", "resident"}, p \in Pages}
==============================================================================
