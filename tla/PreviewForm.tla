---------------------------- MODULE PreviewForm ----------------------------
(***************************************************************************)
(* A form of the console whose figures are computed by the API first and   *)
(* approved second: RaiseInvoice of apps/web-admin/src/app/billing/        *)
(* page.tsx, and the import of app/migration/page.tsx, which is written    *)
(* the same way.                                                           *)
(*                                                                         *)
(* Fields are never disabled: somebody can type while a preview is under   *)
(* way.  A preview is known by the inputs it was computed from.            *)
(***************************************************************************)
CONSTANTS
  Inputs,   \* what the fields can hold when the form is complete
  None      \* no figures, nothing sent

VARIABLES
  inputs,      \* what the fields hold
  preview,     \* the inputs whose figures are shown, or None
  working,     \* useAction: "no", or the call under way
  sent,        \* the body of that call, or None
  approved,    \* history: the figures shown when Issue was pressed
  disturbed    \* history: a field changed while a preview was computed

vars == <<inputs, preview, working, sent, approved, disturbed>>

Init ==
  /\ inputs \in Inputs /\ preview = None
  /\ working = "no" /\ sent = None
  /\ approved = None /\ disturbed = FALSE

(* change.  Mutant of Kept: the setter alone.                              *)
KeptAcrossEdits(shown) == shown

Kept(shown) == None

Edit(i) ==
  /\ i # inputs /\ inputs' = i /\ preview' = Kept(preview)
  /\ disturbed' = (disturbed \/ working = "preview")
  /\ UNCHANGED <<working, sent, approved>>

RunPreview ==
  /\ working = "no" /\ working' = "preview" /\ sent' = inputs
  /\ UNCHANGED <<inputs, preview, approved, disturbed>>

(* setPreview, whatever the fields hold by now.                            *)
ShowPreview ==
  /\ working = "preview" /\ working' = "no" /\ preview' = sent
  /\ UNCHANGED <<inputs, sent, approved, disturbed>>

Issue ==
  /\ working = "no" /\ preview # None
  /\ working' = "issue" /\ sent' = inputs /\ approved' = preview
  /\ UNCHANGED <<inputs, preview, disturbed>>

Fail ==
  /\ working # "no" /\ working' = "no"
  /\ UNCHANGED <<inputs, preview, sent, approved, disturbed>>

(* onDone takes the form away, and Cancel does at any time; the next one   *)
(* is new.                                                                 *)
Close == inputs' \in Inputs /\ preview' = None /\ working' = "no" /\ sent' = None
         /\ approved' = None /\ disturbed' = FALSE

Next == (\E i \in Inputs : Edit(i)) \/ RunPreview \/ ShowPreview \/ Issue \/ Fail \/ Close

Spec == Init /\ [][Next]_vars
-----------------------------------------------------------------------------
(* The comment over change: approving figures computed for another period  *)
(* is made impossible.  What is sent to be issued is what was approved.    *)
IssuedAsPreviewed == working = "issue" => sent = approved

(* What remains of it: so it is as long as nobody types while a preview is *)
(* being computed, through any number of failures and second thoughts.     *)
UndisturbedPreviewIsIssued == ~disturbed => IssuedAsPreviewed
=============================================================================
