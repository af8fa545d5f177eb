------------------------------ MODULE Console -------------------------------
(***************************************************************************)
(* A page of the console while somebody has it open                        *)
(* (apps/web-admin/src: the pages, useAction and Modal of                  *)
(* components/Shell.tsx, request and can of lib/api.ts).                   *)
(*                                                                         *)
(* A page asks for its rows when it opens, when something on it is chosen, *)
(* after its own writes and, some of them, every few seconds.  Nothing     *)
(* cancels a load: what lands last is shown, whatever was asked last.      *)
(* The rows of a page are a version number, one more with each write that  *)
(* they show.                                                              *)
(*                                                                         *)
(* A person keeps their roles here; the session is the matter of module    *)
(* Sessions.  A page that is left forgets all this.                        *)
(***************************************************************************)
EXTENDS ConsolePages, Integers

CONSTANTS
  Visits,     \* who opens what page, and what they press there
  BusyVisits, \* those during which somebody else writes, something is
              \* chosen, answers are lost and a form is opened again
  MaxLoads,   \* loads that may be under way at once
  MaxChoices, MaxForms, MaxErrors, MaxWrites, MaxLosses   \* bounds

ASSUME ConsoleAssumption ==
  /\ \A v \in Visits :
       /\ v.held \subseteq Roles /\ v.page \in Pages
       /\ v.presses \subseteq DOMAIN PageOf[v.page].offers
  /\ BusyVisits \subseteq Visits
  /\ MaxLoads \in Nat \ {0} /\ MaxChoices \in Nat /\ MaxForms \in Nat /\ MaxErrors \in Nat /\ MaxWrites \in Nat /\ MaxLosses \in Nat

VARIABLES
  visit,
  choice,     \* what is chosen on the page, counted
  written,    \* the version of the rows in the database
  view,       \* what the page shows: the version, and of which choice
  banner,     \* whether it shows an error
  loads,
  forms,      \* forms and buttons in the order of their opening
  losses,
  confirmed   \* history: the newest version of its own doing that no older load
              \* was under way to hide

vars == <<visit, choice, written, view, banner, loads, forms, losses, confirmed>>
------------------------------------------------------------------------------
held == visit.held
page == visit.page
busy == visit \in BusyVisits

can(roles) == held \cap roles # {}
Let(route) == Passes(held, route)
Opens == \A route \in PageOf[page].needs : Let(route)

Slots == 1..MaxLoads
NoLoad == [state |-> "idle", of |-> 0, at |-> 0]
Asked == [state |-> "asked", of |-> choice', at |-> 0]
Nothing == [of |-> 0, at |-> 0]

Init ==
  /\ visit \in Visits /\ can(PageOf[page].sections)
  /\ choice = 1 /\ written = 1 /\ view = Nothing /\ banner = FALSE
  /\ loads = [s \in Slots |-> IF s = 1 THEN [state |-> "asked", of |-> 1, at |-> 0] ELSE NoLoad]
  /\ forms = <<>> /\ losses = 0 /\ confirmed = 0

(* load() of the pages, up to the await.                                   *)
Load ==
  /\ \E s \in Slots :
       /\ loads[s] = NoLoad /\ \A t \in 1..(s - 1) : loads[t] # NoLoad
       /\ loads' = [loads EXCEPT ![s] = Asked]
  /\ banner' = (banner /\ PageOf[page].clears # "start")
NoNewLoad == UNCHANGED <<loads, banner>>
Quiet == \A s \in Slots : loads[s] = NoLoad

(* Mutant of Polls: only until there is something to show.                 *)
PollsUntilShown == PageOf[page].polls /\ view = Nothing

Polls == PageOf[page].polls

Poll == Polls /\ UNCHANGED choice /\ Load
        /\ UNCHANGED <<visit, written, view, forms, losses, confirmed>>

Choose ==
  /\ PageOf[page].chooses /\ choice < MaxChoices /\ busy
  /\ choice' = choice + 1 /\ Load
  /\ UNCHANGED <<visit, written, view, forms, losses, confirmed>>

(* Promise.all: every row, or nothing.                                     *)
Read(s) ==
  /\ loads[s].state = "asked"
  /\ loads' = [loads EXCEPT ![s].state = IF Opens THEN "read" ELSE "failed",
                            ![s].at = IF Opens THEN written ELSE 0]
  /\ UNCHANGED <<visit, choice, written, view, banner, forms, losses, confirmed>>

LoseLoad(s) ==
  /\ loads[s].state \in {"asked", "read"} /\ losses < MaxLosses /\ busy
  /\ losses' = losses + 1
  /\ loads' = [loads EXCEPT ![s] = [@ EXCEPT !.state = "failed", !.at = 0]]
  /\ UNCHANGED <<visit, choice, written, view, banner, forms, confirmed>>

Land(s) ==
  /\ \/ /\ loads[s].state = "read"
        /\ view' = [of |-> loads[s].of, at |-> loads[s].at]
        /\ banner' = (banner /\ PageOf[page].clears # "success")
     \/ loads[s].state = "failed" /\ banner' = TRUE /\ UNCHANGED view
  /\ loads' = [loads EXCEPT ![s] = NoLoad]
  /\ UNCHANGED <<visit, choice, written, forms, losses, confirmed>>

OthersWrite ==
  /\ written < MaxWrites /\ busy /\ written' = written + 1
  /\ UNCHANGED <<visit, choice, view, banner, loads, forms, losses, confirmed>>
------------------------------------------------------------------------------
Offers == PageOf[page].offers
Offer(f) == Offers[forms[f].name]
Instance(name) == [name |-> name, open |-> TRUE, call |-> 0, answer |-> "none",
                   ran |-> 0, told |-> 0, done |-> 0, made |-> 0]

(* A button needs a row to stand on.  One visit is about one offer.        *)
OpenForm(name) ==
  /\ can(Offers[name].shown) /\ name \in visit.presses /\ Len(forms) < MaxForms
  /\ Len(forms) = 0 \/ busy
  /\ Offers[name].kind # "form" => view # Nothing
  /\ \A f \in DOMAIN forms : ~forms[f].open /\ forms[f].name = name
  /\ forms' = Append(forms, Instance(name))
  /\ UNCHANGED <<visit, choice, written, view, banner, loads, losses, confirmed>>

(* Cancel, Escape and the cross close a form even while it is at work, and *)
(* a modal or a row that goes takes its buttons with it.                   *)
CloseForm(f) ==
  /\ forms[f].open
  /\ forms' = [forms EXCEPT ![f].open = FALSE]
  /\ UNCHANGED <<visit, choice, written, view, banner, loads, losses, confirmed>>

(* useAction: run.  Mutant of MayRun: a button that is busy takes another  *)
(* press.                                                                  *)
MayRunWhileBusy(f) == forms[f].open

MayRun(f) == forms[f].open /\ forms[f].call = 0

Run(f) ==
  /\ MayRun(f) /\ forms[f].told < MaxErrors
  /\ written <= MaxWrites /\ forms[f].done < MaxWrites
  /\ forms' = [forms EXCEPT ![f].call = 1, ![f].answer = "none"]
  /\ UNCHANGED <<visit, choice, written, view, banner, loads, losses, confirmed>>

Route(f) == Offer(f).calls[forms[f].call]
AtWork(f) == forms[f].call # 0 /\ forms[f].answer = "none"

Do(f) ==
  /\ AtWork(f)
  /\ LET writes == IF Let(Route(f)) /\ Offer(f).kind # "look" THEN 1 ELSE 0
         shows == IF Offer(f).inRows THEN writes ELSE 0 IN
     /\ written' = written + shows
     /\ forms' = [forms EXCEPT ![f].answer = IF Let(Route(f)) THEN "ok" ELSE "refused",
                    ![f].made = IF shows = 1 THEN written' ELSE @,
                    ![f].ran = IF forms[f].call = 1 THEN @ + writes ELSE @]
  /\ UNCHANGED <<visit, choice, view, banner, loads, losses, confirmed>>

(* The call, or its answer after it was carried out.                       *)
LoseCall(f) ==
  /\ AtWork(f) \/ (forms[f].call # 0 /\ forms[f].answer = "ok")
  /\ losses < MaxLosses /\ busy /\ losses' = losses + 1
  /\ forms' = [forms EXCEPT ![f].answer = "lost"]
  /\ UNCHANGED <<visit, choice, written, view, banner, loads, confirmed>>

HasNextCall(f) == forms[f].call < Len(Offer(f).calls)

NextCall(f) ==
  /\ forms[f].answer = "ok" /\ HasNextCall(f)
  /\ forms' = [forms EXCEPT ![f].call = @ + 1, ![f].answer = "none"]
  /\ UNCHANGED <<visit, choice, written, view, banner, loads, losses, confirmed>>

(* onDone closes whichever form of the kind is open by then, and loads.    *)
(* Mutant of Refreshes: only a form does.                                  *)
RefreshesAfterForms(f) == Offer(f).kind = "form"

Refreshes(f) == Offer(f).loads

Succeed(f) ==
  /\ forms[f].answer = "ok" /\ ~HasNextCall(f)
  /\ forms' = [g \in DOMAIN forms |->
                 LET kept == IF g = f THEN [forms[g] EXCEPT !.call = 0, !.answer = "none", !.done = @ + 1]
                             ELSE forms[g] IN
                 IF forms[g].name = forms[f].name /\ Offer(f).kind = "form"
                 THEN [kept EXCEPT !.open = FALSE] ELSE kept]
  /\ confirmed' = IF Quiet /\ forms[f].made > confirmed THEN forms[f].made ELSE confirmed
  /\ UNCHANGED choice
  /\ IF Refreshes(f) THEN Load ELSE NoNewLoad
  /\ UNCHANGED <<visit, written, view, losses>>

(* A form that is still there keeps what was typed and shows the error.    *)
Complain(f) ==
  /\ forms[f].answer \in {"refused", "lost"}
  /\ forms' = [forms EXCEPT ![f].call = 0, ![f].answer = "none", ![f].told = @ + 1]
  /\ UNCHANGED <<visit, choice, written, view, banner, loads, losses, confirmed>>
------------------------------------------------------------------------------
Loading(s) == Read(s) \/ Land(s) \/ LoseLoad(s)
Working(f) ==
  \/ Run(f) \/ CloseForm(f) \/ Do(f) \/ LoseCall(f)
  \/ NextCall(f) \/ Succeed(f) \/ Complain(f)

Next ==
  \/ Poll \/ Choose \/ OthersWrite
  \/ \E s \in Slots : Loading(s)
  \/ \E name \in DOMAIN Offers : OpenForm(name)
  \/ \E f \in DOMAIN forms : Working(f)

(* The API answers what arrives, the timer fires, and an answer that has   *)
(* arrived is handled.  Nobody has to press anything.                      *)
Fairness ==
  /\ WF_vars(Poll)
  /\ \A s \in Slots : WF_vars(Read(s)) /\ WF_vars(Land(s))
  /\ \A f \in 1..MaxForms :
       WF_vars(f \in DOMAIN forms /\ (Do(f) \/ NextCall(f) \/ Succeed(f) \/ Complain(f)))

Spec == Init /\ [][Next]_vars /\ Fairness
------------------------------------------------------------------------------
(* However often somebody presses, what they asked for is carried out      *)
(* again only after they were shown how the last press ended (the promise  *)
(* above useAction: double-tapping must not issue two invoices).  A form   *)
(* that closes when it is done only ever ends in an error and another      *)
(* press; a button that stays, as the setting of a PIN does, may be        *)
(* pressed again when it is done, too.                                     *)
Shown(r) == r.told + (IF Offers[r.name].kind = "form" THEN 0 ELSE r.done)

AgainOnlyAfterAnAnswer == \A f \in DOMAIN forms : forms[f].ran <= 1 + Shown(forms[f])

(* What the console offers to certain roles only (its calls of can), the   *)
(* API does for them, with one exception: reopening a period, which the    *)
(* page of the books offers to accountants and the API keeps for the       *)
(* society's admin.                                                        *)
LimitedOffersAreAllowed ==
  \A f \in DOMAIN forms :
    /\ forms[f].answer = "refused" /\ Offer(f).shown # Anyone
    => page = "books" /\ forms[f].name = "ReopenPeriod" /\ "society_admin" \notin held

(* Whoever has changed something that a page's rows show gets to see it    *)
(* there, or an error, and goes on seeing it.  (The answer of a load that  *)
(* was under way when the write was done may land last and hide it.  What  *)
(* is written aside the rows do not show.)                                 *)
OwnWritesAreShown ==
  \A n \in 1..(MaxWrites + 1) : (confirmed = n) ~> (view.at >= n \/ banner)

(* A page that asks by itself ends up with what there is, whatever was     *)
(* lost or overtaken: the queue at the barrier is never stale for good.    *)
PollingPagesCatchUp ==
  (PageOf[page].polls /\ Opens) => <>[](view = [of |-> choice, at |-> written])
=============================================================================
