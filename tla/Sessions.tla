------------------------------ MODULE Sessions ------------------------------
(***************************************************************************)
(* Signing in and staying signed in: one-time codes and the rotation of    *)
(* refresh tokens (apps/api/src/modules/auth/auth.service.ts), and the two *)
(* clients that call again after a 401: request and tryRefresh of the      *)
(* console (apps/web-admin/src/lib/api.ts), _send and _refresh of the      *)
(* residents' app (apps/mobile-resident/lib/api/client.dart).              *)
(*                                                                         *)
(* One phone, one client.  A transaction that throws leaves nothing: a     *)
(* wrong code and a refresh token that is presented again change no row,   *)
(* whatever was written before the throw.  A refresh token is the number   *)
(* of its row, and so is the access token issued with it; a row of         *)
(* sessions that was rotated is revoked at the same time.                  *)
(*                                                                         *)
(* Left out: the society chosen at sign-in, the end of a refresh token     *)
(* that is never used, and logout, which no client calls.                  *)
(***************************************************************************)
EXTENDS Naturals, Sequences, FiniteSets

CONSTANTS
  Calls,                         \* calls that may be under way at once
  MaxCodes, MaxRows, MaxLosses, MaxErrors   \* bounds

ASSUME SessionsAssumption ==
  MaxCodes \in Nat /\ MaxRows \in Nat /\ MaxLosses \in Nat /\ MaxErrors \in Nat

VARIABLES
  client,      \* "console", which signs out when a refresh is not ok, or "app"
  codes,       \* otp_challenges: [consumed, age]
  admitted,    \* codes that were verified and have no session yet
  rows,        \* sessions: [code, spent]
  lapsed,      \* the access tokens of the rows so far have expired
  member,      \* the person holds a role in the society
  store,       \* the client's row, 0 when signed out
  calls,
  losses,      \* refreshes that were lost, or failed after the rotation
  errors,      \* refreshes that failed before the rotation
  dropped,     \* history: a refresh that was not ok has ended a session
  overlapped   \* history: two calls have presented one refresh token at once

server == <<codes, admitted, rows, lapsed, member>>
vars == <<client, server, store, calls, losses, errors, dropped, overlapped>>
------------------------------------------------------------------------------
Idle == [state |-> "idle", token |-> 0, retry |-> FALSE]

Init ==
  /\ client \in {"console", "app"}
  /\ codes = <<>> /\ admitted = {} /\ rows = <<>> /\ lapsed = 0 /\ member = TRUE
  /\ store = 0 /\ calls = [c \in Calls |-> Idle]
  /\ losses = 0 /\ errors = 0 /\ dropped = FALSE /\ overlapped = FALSE

Codes == DOMAIN codes
Rows == DOMAIN rows
Ages == {"new", "old", "expired"}   \* new: within the cooldown

(* requestOtp.                                                             *)
RequestOtp ==
  /\ Len(codes) < MaxCodes
  /\ \A c \in Codes : codes[c].age = "new" => codes[c].consumed
  /\ codes' = Append(codes, [consumed |-> FALSE, age |-> "new"])
  /\ UNCHANGED <<client, admitted, rows, lapsed, member, store, calls, losses, errors, dropped, overlapped>>

(* Time passes for a code that is left; of a consumed one nothing is asked. *)
Age(c) ==
  /\ ~codes[c].consumed /\ codes[c].age # "expired"
  /\ codes' = [codes EXCEPT ![c].age = IF @ = "new" THEN "old" ELSE "expired"]
  /\ UNCHANGED <<client, admitted, rows, lapsed, member, store, calls, losses, errors, dropped, overlapped>>

(* verifyOtp looks at the newest code that is left.  Mutant of Usable: one *)
(* that was used is not passed over.                                       *)
UsableAgain(c) == codes[c].age # "expired"

Usable(c) == ~codes[c].consumed /\ codes[c].age # "expired"

VerifyOtp(c) ==
  /\ Usable(c) /\ \A d \in Codes : d > c => ~Usable(d)
  /\ codes' = [d \in Codes |-> [codes[d] EXCEPT !.consumed = TRUE]]
  /\ admitted' = admitted \cup {c}
  /\ UNCHANGED <<client, rows, lapsed, member, store, calls, losses, errors, dropped, overlapped>>

(* createSession is another transaction; the client keeps what it is given. *)
CreateSession(c) ==
  /\ c \in admitted /\ member /\ Len(rows) < MaxRows
  /\ admitted' = admitted \ {c}
  /\ rows' = Append(rows, [code |-> c, spent |-> FALSE])
  /\ store' = Len(rows')
  /\ UNCHANGED <<client, codes, lapsed, member, calls, losses, errors, dropped, overlapped>>

FailToCreate(c) ==
  /\ c \in admitted /\ admitted' = admitted \ {c}
  /\ UNCHANGED <<client, codes, rows, lapsed, member, store, calls, losses, errors, dropped, overlapped>>

LeaveSociety ==
  /\ member /\ member' = FALSE
  /\ UNCHANGED <<client, codes, admitted, rows, lapsed, store, calls, losses, errors, dropped, overlapped>>

(* JWT_ACCESS_TTL_MINUTES have passed.                                     *)
Lapse ==
  /\ lapsed < Len(rows) /\ lapsed' = Len(rows)
  /\ UNCHANGED <<client, codes, admitted, rows, member, store, calls, losses, errors, dropped, overlapped>>
------------------------------------------------------------------------------
Put(c, call) == calls' = [calls EXCEPT ![c] = call]

(* A call is sent with whatever access token is stored.                    *)
Send(c) ==
  /\ calls[c] = Idle /\ store # 0
  /\ Put(c, [state |-> "sent", token |-> store, retry |-> TRUE])
  /\ UNCHANGED <<client, server, store, losses, errors, dropped, overlapped>>

Serve(c) ==
  /\ calls[c].state = "sent"
  /\ Put(c, IF calls[c].token > lapsed THEN Idle ELSE [calls[c] EXCEPT !.state = "401"])
  /\ UNCHANGED <<client, server, store, losses, errors, dropped, overlapped>>

Presents(c, row) == calls[c].state \in {"refreshing", "rotated", "refused"} /\ calls[c].token = row

(* The first 401 of a call refreshes, with the token stored by then.       *)
Land401(c) ==
  /\ calls[c].state = "401"
  /\ IF calls[c].retry /\ store # 0
     THEN /\ Put(c, [state |-> "refreshing", token |-> store, retry |-> FALSE])
          /\ overlapped' = (overlapped \/ \E d \in Calls \ {c} : Presents(d, store))
     ELSE Put(c, Idle) /\ UNCHANGED overlapped
  /\ UNCHANGED <<client, server, store, losses, errors, dropped>>

(* rotateSession: the row is locked, so of two only the first finds it     *)
(* unspent.  Mutant of Rotatable: without the lock and the look at         *)
(* rotated_to.                                                             *)
RotatableAgain(row) == row \in Rows

Rotatable(row) == row \in Rows /\ ~rows[row].spent

Rotation(row) == Append([rows EXCEPT ![row].spent = TRUE],
                        [code |-> rows[row].code, spent |-> FALSE])

(* The roles are looked up after the rotation is committed.                *)
RotateSession(c) ==
  LET row == calls[c].token IN
  /\ calls[c].state = "refreshing" /\ Len(rows) < MaxRows
  /\ IF Rotatable(row)
     THEN /\ rows' = Rotation(row)
          /\ Put(c, [calls[c] EXCEPT !.state = IF member THEN "rotated" ELSE "refused"])
     ELSE UNCHANGED rows /\ Put(c, [calls[c] EXCEPT !.state = "refused"])
  /\ UNCHANGED <<client, codes, admitted, lapsed, member, store, losses, errors, dropped, overlapped>>

(* The pool, the database or the process fails, before the rotation is     *)
(* committed or before its roles are known: the client sees a 5xx.         *)
FailToRotate(c) ==
  LET row == calls[c].token IN
  /\ calls[c].state = "refreshing"
  /\ \/ errors < MaxErrors /\ errors' = errors + 1 /\ UNCHANGED <<rows, losses>>
     \/ /\ Rotatable(row) /\ Len(rows) < MaxRows /\ losses < MaxLosses
        /\ rows' = Rotation(row) /\ losses' = losses + 1 /\ UNCHANGED errors
  /\ Put(c, [calls[c] EXCEPT !.state = "refused"])
  /\ UNCHANGED <<client, codes, admitted, lapsed, member, store, dropped, overlapped>>

(* The newest row of the same sign-in is the one just issued.              *)
IssuedFor(row) ==
  CHOOSE new \in Rows : rows[new].code = rows[row].code /\ ~rows[new].spent

LoseRefresh(c) ==
  /\ calls[c].state \in {"refreshing", "rotated"} /\ losses < MaxLosses
  /\ losses' = losses + 1 /\ Put(c, Idle)
  /\ UNCHANGED <<client, server, store, errors, dropped, overlapped>>

(* session.save, whatever has become of the session meanwhile; and once    *)
(* more with the new token.  Mutant of Saved: the refresh token stays.     *)
SavedWithoutRefresh(old, new) == old

Saved(old, new) == new

LandRotated(c) ==
  /\ calls[c].state = "rotated"
  /\ store' = Saved(calls[c].token, IssuedFor(calls[c].token))
  /\ Put(c, [state |-> "sent", token |-> IssuedFor(calls[c].token), retry |-> FALSE])
  /\ UNCHANGED <<client, server, losses, errors, dropped, overlapped>>

(* Any response that is not ok, 5xx included: session.clear.  The app      *)
(* keeps its tokens and shows the error, which ends the session if the     *)
(* token it keeps is spent.                                                *)
LandRefused(c) ==
  /\ calls[c].state = "refused"
  /\ store' = IF client = "console" THEN 0 ELSE store
  /\ dropped' = (dropped \/ (store # 0 /\ (client = "app" =>
                                             store = calls[c].token /\ ~Rotatable(store))))
  /\ Put(c, Idle)
  /\ UNCHANGED <<client, server, losses, errors, overlapped>>

SignOut ==
  /\ store # 0 /\ store' = 0
  /\ UNCHANGED <<client, server, calls, losses, errors, dropped, overlapped>>
------------------------------------------------------------------------------
SignIn == RequestOtp \/ \E c \in Codes : Age(c) \/ VerifyOtp(c) \/ CreateSession(c) \/ FailToCreate(c)
Call(c) ==
  \/ Send(c) \/ Serve(c) \/ Land401(c) \/ RotateSession(c) \/ FailToRotate(c)
  \/ LoseRefresh(c) \/ LandRotated(c) \/ LandRefused(c)

Next == SignIn \/ LeaveSociety \/ Lapse \/ SignOut \/ \E c \in Calls : Call(c)

Spec == Init /\ [][Next]_vars
------------------------------------------------------------------------------
(* The shapes; a client holds and presents rows that are there, or none.   *)
TypeOK ==
  /\ client \in {"console", "app"}
  /\ codes \in Seq([consumed : BOOLEAN, age : Ages])
  /\ admitted \subseteq Codes
  /\ rows \in Seq([code : Nat, spent : BOOLEAN])
  /\ lapsed \in 0..Len(rows) /\ member \in BOOLEAN
  /\ store \in 0..Len(rows)
  /\ calls \in [Calls -> [state : {"idle", "sent", "401", "refreshing", "rotated", "refused"},
                          token : 0..Len(rows), retry : BOOLEAN]]
  /\ losses \in Nat /\ errors \in Nat /\ dropped \in BOOLEAN /\ overlapped \in BOOLEAN

(* A code that was sent to a phone is worth one session: at any time at    *)
(* most one refresh token that descends from it can still be used, however *)
(* many calls present it at once.                                          *)
OneTokenPerSignIn ==
  \A i, j \in Rows :
    rows[i].code = rows[j].code /\ ~rows[i].spent /\ ~rows[j].spent => i = j

(* Rotation as such signs nobody out (auth.service.ts:300-373, request of  *)
(* lib/api.ts): somebody who holds a role is thrown back to the sign-in, or *)
(* left with a spent token, only after two calls refreshed at once, after  *)
(* the answer to a rotation was lost or became an error, or, in the        *)
(* console, after any error of a refresh.                                  *)
OnlyTroubleSignsOut ==
  dropped => overlapped \/ losses > 0 \/ ~member \/ (client = "console" /\ errors > 0)
=============================================================================
