--------------------------- MODULE SessionsProofs ---------------------------
(***************************************************************************)
(* What holds of Sessions for any number of calls, codes and losses: at    *)
(* most one usable token per sign-in, and nobody signed out by rotation    *)
(* alone.                                                                  *)
(***************************************************************************)
EXTENDS Sessions, SequenceTheorems, TLAPS

Code == [consumed : BOOLEAN, age : Ages]
Row == [code : Nat, spent : BOOLEAN]

(* A code is consumed before anything descends from it, and a code that    *)
(* still waits for its session has none.                                   *)
CodesAreSpent ==
  /\ \A c \in admitted : codes[c].consumed
  /\ \A i \in Rows : /\ rows[i].code \in Codes /\ codes[rows[i].code].consumed
                     /\ rows[i].code \notin admitted

(* A sign-in that has a row has one that can still be used.                *)
SomeTokenPerSignIn ==
  \A i \in Rows : \E j \in Rows : rows[j].code = rows[i].code /\ ~rows[j].spent

RotatedRowsExist == \A c \in Calls : calls[c].state = "rotated" => calls[c].token \in Rows

NoTrouble == ~overlapped /\ losses = 0 /\ member /\ (client = "console" => errors = 0)

(* As long as there is no trouble, every refresh under way can be granted, *)
(* one that failed has spent nothing, and the stored token is usable or    *)
(* about to be replaced by the call that has used it.                      *)
Smooth ==
  NoTrouble =>
    /\ ~dropped
    /\ \A c \in Calls : calls[c].state = "refused" =>
                          client = "app" /\ Rotatable(calls[c].token)
    /\ \A c \in Calls : calls[c].state = "refreshing" => Rotatable(calls[c].token)
    /\ \A c, d \in Calls : c # d => ~(Presents(c, calls[d].token) /\ Presents(d, calls[d].token))
    /\ store # 0 => Rotatable(store) \/ \E c \in Calls : Presents(c, store)

IInv ==
  /\ TypeOK /\ CodesAreSpent /\ OneTokenPerSignIn
  /\ SomeTokenPerSignIn /\ RotatedRowsExist /\ Smooth
-----------------------------------------------------------------------------
(* What Append does to a sequence, by its entries.                         *)
LEMMA Appended ==
  ASSUME NEW S, NEW s \in Seq(S), NEW e \in S
  PROVE  /\ Append(s, e) \in Seq(S) /\ Len(Append(s, e)) = Len(s) + 1
         /\ DOMAIN Append(s, e) = 1..(Len(s) + 1)
         /\ \A i \in 1..Len(s) : Append(s, e)[i] = s[i]
         /\ Append(s, e)[Len(s) + 1] = e
  BY AppendProperties, LenProperties

(* Codes and rows are numbered from one.                                   *)
LEMMA Numbered ==
  ASSUME TypeOK
  PROVE  /\ Len(codes) \in Nat /\ Codes = 1..Len(codes)
         /\ Len(rows) \in Nat /\ Rows = 1..Len(rows)
         /\ \A c \in Codes : codes[c] \in Code
         /\ \A i \in Rows : rows[i] \in Row
  <1>1. codes \in Seq(Code) /\ rows \in Seq(Row)  BY DEF TypeOK, Code, Row
  <1> QED  BY <1>1, LenProperties DEF Codes, Rows

(* Signing in: what happens to codes before there is a session.            *)
LEMMA CodeStep ==
  ASSUME IInv, RequestOtp \/ \E c \in Codes : Age(c) \/ VerifyOtp(c)
  PROVE  IInv'
<1>1. TypeOK /\ codes \in Seq(Code)  BY DEF IInv, TypeOK, Code
<1>2. /\ Len(codes) \in Nat /\ Codes = 1..Len(codes)
      /\ \A c \in Codes : codes[c] \in Code  BY <1>1, Numbered
<1>3. UNCHANGED <<client, rows, lapsed, member, store, calls, losses, errors, dropped, overlapped>>
  BY DEF RequestOtp, Age, VerifyOtp
<1>4. /\ codes' \in Seq(Code) /\ Codes \subseteq Codes'
      /\ \A c \in Codes : codes[c].consumed => codes'[c].consumed
      /\ admitted' \subseteq Codes'
      /\ \A c \in admitted' : codes'[c].consumed /\ \A i \in Rows : rows[i].code # c
  <2>1. CASE RequestOtp
    <3> DEFINE e == [consumed |-> FALSE, age |-> "new"]
    <3>1. e \in Code  BY DEF Code, Ages
    <3>2. codes' = Append(codes, e) /\ admitted' = admitted  BY <2>1 DEF RequestOtp
    <3>3. /\ codes' \in Seq(Code) /\ DOMAIN codes' = 1..(Len(codes) + 1)
          /\ \A i \in 1..Len(codes) : codes'[i] = codes[i]
      BY <1>1, <3>1, <3>2, Appended
    <3>4. Codes \subseteq Codes' /\ \A i \in Codes : codes'[i] = codes[i]
      BY <1>2, <3>3 DEF Codes
    <3> QED  BY <1>1, <3>2, <3>3, <3>4 DEF IInv, TypeOK, CodesAreSpent
  <2>2. ASSUME NEW c \in Codes, Age(c) PROVE <1>4
    <3> DEFINE e == [codes[c] EXCEPT !.age = IF @ = "new" THEN "old" ELSE "expired"]
    <3>1. e \in Code /\ e.consumed = codes[c].consumed  BY <1>2 DEF Code, Ages
    <3>2. codes' = [codes EXCEPT ![c] = e] /\ admitted' = admitted  BY <2>2 DEF Age
    <3>3. /\ codes' \in Seq(Code) /\ Len(codes') = Len(codes)
          /\ \A i \in 1..Len(codes) : codes'[i] = IF i = c THEN e ELSE codes[i]
      <4> HIDE DEF e
      <4> QED  BY <1>1, <1>2, <3>1, <3>2, ExceptSeq
    <3>4. Codes' = Codes  BY <1>2, <3>3, LenProperties DEF Codes
    <3>5. \A i \in Codes : codes'[i].consumed = codes[i].consumed  BY <1>2, <3>1, <3>3
    <3> QED  BY <1>1, <3>2, <3>3, <3>4, <3>5 DEF IInv, TypeOK, CodesAreSpent
  <2>3. ASSUME NEW c \in Codes, VerifyOtp(c) PROVE <1>4
    <3>1. /\ codes' = [d \in Codes |-> [codes[d] EXCEPT !.consumed = TRUE]]
          /\ admitted' = admitted \cup {c} /\ ~codes[c].consumed
      BY <2>3 DEF VerifyOtp, Usable
    <3>2. \A d \in Codes : [codes[d] EXCEPT !.consumed = TRUE] \in Code
                           /\ [codes[d] EXCEPT !.consumed = TRUE].consumed
      BY <1>2 DEF Code
    <3>3. codes' \in [1..Len(codes) -> Code]  BY <1>2, <3>1, <3>2
    <3>4. codes' \in Seq(Code)  BY <1>2, <3>3, SeqDef
    <3>5. Codes' = Codes /\ \A d \in Codes : codes'[d].consumed  BY <3>1, <3>2 DEF Codes
    <3> QED  BY <1>1, <3>1, <3>4, <3>5 DEF IInv, TypeOK, CodesAreSpent
  <2> QED  BY <2>1, <2>2, <2>3
<1>5. TypeOK'  BY <1>1, <1>3, <1>4 DEF TypeOK, Rows, Code
<1>6. CodesAreSpent'  BY <1>3, <1>4 DEF IInv, CodesAreSpent, Rows
<1>7. (OneTokenPerSignIn /\ SomeTokenPerSignIn /\ RotatedRowsExist /\ Smooth)'
  BY <1>3 DEF IInv, OneTokenPerSignIn, SomeTokenPerSignIn, RotatedRowsExist, Smooth, NoTrouble,
              Rows, Rotatable, Presents
<1> QED  BY <1>5, <1>6, <1>7 DEF IInv

(* A new session, or a row that takes over from one of the same sign-in.   *)
LEMMA RowAdded ==
  ASSUME IInv, NEW old \in Seq(Row), NEW c \in Nat,
         Len(old) = Len(rows),
         \A i \in Rows : old[i].code = rows[i].code,
         rows' = Append(old, [code |-> c, spent |-> FALSE])
  PROVE  /\ rows' \in Seq(Row) /\ Len(rows') = Len(rows) + 1
         /\ Rows' = Rows \cup {Len(rows')} /\ Len(rows') \notin Rows
         /\ Rows = 1..Len(rows) /\ Len(rows) \in Nat
         /\ \A i \in Rows : rows'[i] = old[i] /\ rows'[i].code = rows[i].code
         /\ rows'[Len(rows')].code = c /\ ~rows'[Len(rows')].spent
<1> DEFINE e == [code |-> c, spent |-> FALSE]
<1>1. Len(rows) \in Nat /\ Rows = 1..Len(rows)  BY Numbered DEF IInv
<1>2. e \in Row /\ e.code = c /\ ~e.spent  BY DEF Row
<1> HIDE DEF e
<1>3. /\ rows' \in Seq(Row) /\ Len(rows') = Len(old) + 1
      /\ DOMAIN rows' = 1..(Len(old) + 1)
      /\ \A i \in 1..Len(old) : rows'[i] = old[i]
      /\ rows'[Len(old) + 1] = e
  <2>1. rows' = Append(old, e)  BY DEF e
  <2> QED  BY <1>2, <2>1, Appended
<1>4. Rows' = Rows \cup {Len(rows')} /\ Len(rows') \notin Rows  BY <1>1, <1>3 DEF Rows
<1> QED  BY <1>1, <1>2, <1>3, <1>4

LEMMA CreateStep ==
  ASSUME IInv, NEW c \in Codes, CreateSession(c)
  PROVE  IInv'
<1>1. /\ c \in admitted /\ admitted' = admitted \ {c}
      /\ rows' = Append(rows, [code |-> c, spent |-> FALSE]) /\ store' = Len(rows')
      /\ UNCHANGED <<client, codes, lapsed, member, calls, losses, errors, dropped, overlapped>>
  BY DEF CreateSession
<1>2. TypeOK /\ Codes = 1..Len(codes) /\ Len(codes) \in Nat /\ rows \in Seq(Row)
  BY Numbered DEF IInv, TypeOK, Row
<1>3. /\ rows' \in Seq(Row) /\ Len(rows') = Len(rows) + 1
      /\ Rows' = Rows \cup {Len(rows')} /\ Len(rows') \notin Rows
      /\ Rows = 1..Len(rows) /\ Len(rows) \in Nat
      /\ \A i \in Rows : rows'[i] = rows[i]
      /\ rows'[Len(rows')].code = c /\ ~rows'[Len(rows')].spent
  <2>1. c \in Nat  BY <1>2
  <2> QED  BY <1>1, <1>2, <2>1, RowAdded
<1>4. TypeOK'
  BY <1>1, <1>2, <1>3 DEF TypeOK, Codes, Row
<1>5. CodesAreSpent'  BY <1>1, <1>3 DEF IInv, CodesAreSpent, Codes
<1>6. \A i \in Rows : rows[i].code # c  BY <1>1 DEF IInv, CodesAreSpent
<1>7. (OneTokenPerSignIn /\ SomeTokenPerSignIn /\ RotatedRowsExist)'
  BY <1>1, <1>3, <1>6 DEF IInv, OneTokenPerSignIn, SomeTokenPerSignIn, RotatedRowsExist
<1>8. Smooth'
  <2>1. Rotatable(store)' /\ \A row : Rotatable(row) => Rotatable(row)'
    BY <1>1, <1>3 DEF Rotatable
  <2>2. \A d \in Calls : Rotatable(calls[d].token) => Rotatable(calls[d].token)'
    BY <1>1, <2>1
  <2> QED  BY <1>1, <2>1, <2>2 DEF IInv, Smooth, NoTrouble, Presents
<1> QED  BY <1>4, <1>5, <1>7, <1>8 DEF IInv

(* A row that is rotated, whatever becomes of the answer.                  *)
LEMMA RotationKept ==
  ASSUME IInv, NEW c \in Calls, NEW next \in {"rotated", "refused"},
         calls[c].state = "refreshing", Rotatable(calls[c].token),
         rows' = Rotation(calls[c].token),
         Put(c, [calls[c] EXCEPT !.state = next]),
         UNCHANGED <<client, codes, admitted, lapsed, member, store, dropped, overlapped>>,
         losses' \in Nat, errors' \in Nat
  PROVE  /\ (TypeOK /\ CodesAreSpent /\ OneTokenPerSignIn)'
         /\ (SomeTokenPerSignIn /\ RotatedRowsExist)'
         /\ calls'[c].state = next /\ calls'[c].token = calls[c].token
         /\ \A d \in Calls \ {c} : calls'[d] = calls[d]
         /\ \A n : n # calls[c].token /\ Rotatable(n) => Rotatable(n)'
<1> DEFINE row == calls[c].token
           old == [rows EXCEPT ![row].spent = TRUE]
<1>a. TypeOK /\ rows \in Seq(Row) /\ Rows = 1..Len(rows) /\ Len(rows) \in Nat
  BY Numbered DEF IInv, TypeOK, Row
<1>1. /\ rows' = Append(old, [code |-> rows[row].code, spent |-> FALSE])
      /\ calls' = [calls EXCEPT ![c] = [calls[c] EXCEPT !.state = next]]
  BY DEF Rotation, Put
<1>2. row \in Rows /\ ~rows[row].spent /\ rows[row] \in Row /\ rows[row].code \in Nat
  BY <1>a, Numbered DEF Rotatable, Row
<1>3. /\ old \in Seq(Row) /\ Len(old) = Len(rows)
      /\ \A i \in Rows : old[i].code = rows[i].code
      /\ \A i \in Rows \ {row} : old[i] = rows[i]
      /\ old[row].spent
  <2> DEFINE e == [rows[row] EXCEPT !.spent = TRUE]
  <2>1. e \in Row /\ e.code = rows[row].code /\ e.spent  BY <1>2 DEF Row
  <2>2. old = [rows EXCEPT ![row] = e]  OBVIOUS
  <2> HIDE DEF e
  <2>3. /\ [rows EXCEPT ![row] = e] \in Seq(Row) /\ Len([rows EXCEPT ![row] = e]) = Len(rows)
        /\ \A j \in 1..Len(rows) : [rows EXCEPT ![row] = e][j] = IF j = row THEN e ELSE rows[j]
    BY <1>a, <1>2, <2>1, ExceptSeq
  <2> QED  BY <1>a, <1>2, <2>1, <2>2, <2>3
<1>4. /\ rows' \in Seq(Row) /\ Len(rows') = Len(rows) + 1
      /\ Rows' = Rows \cup {Len(rows')} /\ Len(rows') \notin Rows
      /\ \A i \in Rows : rows'[i].code = rows[i].code
      /\ \A i \in Rows \ {row} : rows'[i] = rows[i]
      /\ rows'[row].spent
      /\ rows'[Len(rows')].code = rows[row].code /\ ~rows'[Len(rows')].spent
  <2> HIDE DEF old, row
  <2> QED  BY <1>1, <1>2, <1>3, RowAdded
<1>5. /\ calls' \in [Calls -> [state : {"idle", "sent", "401", "refreshing", "rotated", "refused"},
                               token : 0..Len(rows), retry : BOOLEAN]]
      /\ calls'[c].state = next /\ calls'[c].token = row
      /\ \A d \in Calls \ {c} : calls'[d] = calls[d]
  BY <1>a, <1>1 DEF TypeOK
<1> HIDE DEF old, row
<1>6. TypeOK'
  <2>1. /\ client \in {"console", "app"} /\ codes \in Seq([consumed : BOOLEAN, age : Ages])
        /\ admitted \subseteq Codes /\ member \in BOOLEAN
        /\ dropped \in BOOLEAN /\ overlapped \in BOOLEAN
        /\ lapsed \in 0..Len(rows) /\ store \in 0..Len(rows)
    BY <1>a DEF TypeOK
  <2>2. lapsed' \in 0..Len(rows') /\ store' \in 0..Len(rows')  BY <1>a, <1>4, <2>1
  <2>3. calls' \in [Calls -> [state : {"idle", "sent", "401", "refreshing", "rotated", "refused"},
                              token : 0..Len(rows'), retry : BOOLEAN]]
    BY <1>a, <1>4, <1>5
  <2>4. rows' \in Seq([code : Nat, spent : BOOLEAN])  BY <1>4 DEF Row
  <2> QED  BY <2>1, <2>2, <2>3, <2>4 DEF TypeOK, Codes
<1>7. CodesAreSpent'  BY <1>a, <1>2, <1>4 DEF IInv, CodesAreSpent, Codes
<1>8. OneTokenPerSignIn'  BY <1>2, <1>4 DEF IInv, OneTokenPerSignIn
<1>9. SomeTokenPerSignIn'  BY <1>2, <1>4 DEF IInv, SomeTokenPerSignIn
<1>10. RotatedRowsExist'  BY <1>2, <1>4, <1>5 DEF IInv, RotatedRowsExist
<1>11. \A n : n # row /\ Rotatable(n) => Rotatable(n)'  BY <1>4 DEF Rotatable
<1> QED  BY <1>5, <1>6, <1>7, <1>8, <1>9, <1>10, <1>11 DEF row

LEMMA RotateStep ==
  ASSUME IInv, NEW c \in Calls, RotateSession(c)
  PROVE  IInv'
<1> DEFINE row == calls[c].token
<1>1. /\ calls[c].state = "refreshing"
      /\ UNCHANGED <<client, codes, admitted, lapsed, member, store, losses, errors, dropped, overlapped>>
      /\ TypeOK /\ rows \in Seq(Row) /\ Rows = 1..Len(rows) /\ Len(rows) \in Nat
  BY Numbered DEF RotateSession, IInv, TypeOK, Row
<1>2. CASE ~Rotatable(row)
  <2>1. rows' = rows /\ calls' = [calls EXCEPT ![c] = [calls[c] EXCEPT !.state = "refused"]]
    BY <1>2 DEF RotateSession, Put
  <2>2. TypeOK'  BY <1>1, <2>1 DEF TypeOK, Codes
  <2>3. (CodesAreSpent /\ OneTokenPerSignIn /\ SomeTokenPerSignIn /\ RotatedRowsExist)'
    BY <1>1, <2>1 DEF IInv, TypeOK, CodesAreSpent, OneTokenPerSignIn, SomeTokenPerSignIn,
                      RotatedRowsExist, Rows, Codes
  <2>4. Smooth'  BY <1>1, <1>2 DEF IInv, Smooth, NoTrouble
  <2> QED  BY <2>2, <2>3, <2>4 DEF IInv
<1>3. CASE Rotatable(row)
  <2> DEFINE next == IF member THEN "rotated" ELSE "refused"
  <2>1. /\ (TypeOK /\ CodesAreSpent /\ OneTokenPerSignIn)'
        /\ (SomeTokenPerSignIn /\ RotatedRowsExist)'
        /\ calls'[c].state = next /\ calls'[c].token = row
        /\ \A d \in Calls \ {c} : calls'[d] = calls[d]
        /\ \A n : n # row /\ Rotatable(n) => Rotatable(n)'
    <3>1. /\ rows' = Rotation(row) /\ Put(c, [calls[c] EXCEPT !.state = next])
          /\ losses' \in Nat /\ errors' \in Nat
      BY <1>1, <1>3 DEF RotateSession, TypeOK
    <3>2. next \in {"rotated", "refused"}  OBVIOUS
    <3> HIDE DEF next
    <3> QED  BY <1>1, <1>3, <3>1, <3>2, RotationKept
  <2> HIDE DEF next, row
  <2>2. Smooth'
    <3> SUFFICES ASSUME NoTrouble'
                 PROVE  /\ ~dropped'
                        /\ \A d \in Calls : calls'[d].state = "refused" =>
                                              client' = "app" /\ Rotatable(calls[d].token)'
                        /\ \A d \in Calls : calls'[d].state = "refreshing" => Rotatable(calls[d].token)'
                        /\ \A d, e \in Calls : d # e => ~(Presents(d, calls[e].token) /\ Presents(e, calls[e].token))'
                        /\ (store # 0 => Rotatable(store) \/ \E d \in Calls : Presents(d, store))'
      BY DEF Smooth
    <3>0. NoTrouble  BY <1>1 DEF NoTrouble
    <3>1. /\ ~dropped
          /\ \A d \in Calls : calls[d].state = "refused" =>
                               client = "app" /\ Rotatable(calls[d].token)
          /\ \A d \in Calls : calls[d].state = "refreshing" => Rotatable(calls[d].token)
          /\ \A d, e \in Calls : d # e => ~(Presents(d, calls[e].token) /\ Presents(e, calls[e].token))
          /\ store # 0 => Rotatable(store) \/ \E d \in Calls : Presents(d, store)
      BY <1>1, <3>0 DEF IInv, Smooth
    <3>2. next = "rotated"  BY <3>0 DEF next, NoTrouble
    <3>3. \A d \in Calls : \A n : Presents(d, n)' <=> Presents(d, n)
      BY <1>1, <2>1, <3>2 DEF Presents, row
    <3>4. \A n : n # row /\ Rotatable(n) => Rotatable(n)'  BY <2>1
    <3>5. \A d \in Calls \ {c} : calls[d].state = "refreshing" => calls[d].token # row
      BY <1>1, <3>1 DEF Presents, row
    <3>6. \A d \in Calls : calls'[d].token = calls[d].token  BY <2>1 DEF row
    <3>7. \A d \in Calls : calls'[d].state = "refreshing" => Rotatable(calls[d].token)'
      <4> SUFFICES ASSUME NEW d \in Calls, calls'[d].state = "refreshing"
                   PROVE  Rotatable(calls[d].token)'
        OBVIOUS
      <4>1. d # c /\ calls[d].state = "refreshing"  BY <2>1, <3>2
      <4>2. Rotatable(calls[d].token) /\ calls[d].token # row  BY <3>1, <3>5, <4>1
      <4> QED  BY <3>6, <4>2, <2>1
    <3>8. \A d \in Calls : calls'[d].state = "refused" =>
                           client' = "app" /\ Rotatable(calls[d].token)'
      <4> SUFFICES ASSUME NEW d \in Calls, calls'[d].state = "refused"
                   PROVE  client' = "app" /\ Rotatable(calls[d].token)'
        OBVIOUS
      <4>1. d # c /\ calls[d].state = "refused"  BY <2>1, <3>2
      <4>2. calls[d].token # row  BY <1>1, <3>1, <4>1 DEF Presents, row
      <4>3. client = "app" /\ Rotatable(calls[d].token)  BY <3>1, <4>1
      <4> QED  BY <1>1, <2>1, <3>6, <4>2, <4>3 DEF Rotatable
    <3>9. (store # 0 => Rotatable(store) \/ \E d \in Calls : Presents(d, store))'
      <4>1. CASE store = row
        <5>1. Presents(c, store)'  BY <1>1, <2>1, <3>2, <4>1 DEF Presents
        <5> QED  BY <5>1
      <4>2. CASE store # row
        <5>1. Rotatable(store) => Rotatable(store)'  BY <1>1, <2>1, <4>2 DEF Rotatable
        <5>2. \A d \in Calls : Presents(d, store) => Presents(d, store)'
          BY <1>1, <2>1, <3>2 DEF Presents, row
        <5> QED  BY <1>1, <3>1, <5>1, <5>2
      <4> QED  BY <4>1, <4>2
    <3>10. \A d, e \in Calls : d # e => ~(Presents(d, calls[e].token) /\ Presents(e, calls[e].token))'
      BY <1>1, <2>1, <3>1, <3>2, <3>6 DEF Presents
    <3> QED  BY <1>1, <3>1, <3>7, <3>8, <3>9, <3>10
  <2> QED  BY <2>1, <2>2 DEF IInv
<1> QED  BY <1>2, <1>3

(* Steps that touch neither codes nor rows: it is enough to look at what a *)
(* client holds and presents.                                              *)
LEMMA ServerUntouched ==
  ASSUME IInv, UNCHANGED <<codes, admitted, rows>>
  PROVE  /\ (CodesAreSpent /\ OneTokenPerSignIn /\ SomeTokenPerSignIn)'
         /\ Codes' = Codes /\ Rows' = Rows
         /\ \A row : Rotatable(row)' <=> Rotatable(row)
  BY DEF IInv, CodesAreSpent, OneTokenPerSignIn, SomeTokenPerSignIn, Codes, Rows, Rotatable

(* What a call becomes when it is replaced, and the others do not.         *)
LEMMA Replaced ==
  ASSUME TypeOK, NEW c \in Calls, NEW call, Put(c, call),
         call \in [state : {"idle", "sent", "401", "refreshing", "rotated", "refused"},
                  token : 0..Len(rows), retry : BOOLEAN]
  PROVE  /\ calls' \in [Calls -> [state : {"idle", "sent", "401", "refreshing", "rotated", "refused"},
                                 token : 0..Len(rows), retry : BOOLEAN]]
         /\ calls'[c] = call /\ \A d \in Calls \ {c} : calls'[d] = calls[d]
  BY DEF TypeOK, Put

(* A refresh that fails has spent nothing, or the rotation counts as lost.  *)
LEMMA FailStep ==
  ASSUME IInv, NEW c \in Calls, FailToRotate(c)
  PROVE  IInv'
<1>1. /\ calls[c].state = "refreshing"
      /\ Put(c, [calls[c] EXCEPT !.state = "refused"])
      /\ UNCHANGED <<client, codes, admitted, lapsed, member, store, dropped, overlapped>>
      /\ TypeOK /\ Len(rows) \in Nat
  BY Numbered DEF FailToRotate, IInv
<1>2. CASE errors' = errors + 1 /\ UNCHANGED <<rows, losses>>
  <2>1. calls[c] \in [state : {"idle", "sent", "401", "refreshing", "rotated", "refused"},
                      token : 0..Len(rows), retry : BOOLEAN]
    BY <1>1 DEF TypeOK
  <2>2. PICK call : /\ call = [calls[c] EXCEPT !.state = "refused"]
                    /\ call \in [state : {"idle", "sent", "401", "refreshing", "rotated", "refused"},
                                 token : 0..Len(rows), retry : BOOLEAN]
                    /\ call.state = "refused" /\ call.token = calls[c].token
    <3> DEFINE new == [calls[c] EXCEPT !.state = "refused"]
    <3>1. /\ new \in [state : {"idle", "sent", "401", "refreshing", "rotated", "refused"},
                      token : 0..Len(rows), retry : BOOLEAN]
          /\ new.state = "refused" /\ new.token = calls[c].token
      BY <2>1
    <3> QED  BY <3>1, Zenon
  <2>3. /\ calls' \in [Calls -> [state : {"idle", "sent", "401", "refreshing", "rotated", "refused"},
                                token : 0..Len(rows), retry : BOOLEAN]]
        /\ calls'[c] = call /\ \A d \in Calls \ {c} : calls'[d] = calls[d]
    BY <1>1, <2>2, Replaced
  <2>4. TypeOK'  BY <1>1, <1>2, <2>3 DEF TypeOK, Codes
  <2>5. RotatedRowsExist'  BY <1>2, <2>2, <2>3 DEF IInv, RotatedRowsExist, Rows
  <2>6. Smooth'
    <3> SUFFICES ASSUME NoTrouble' PROVE Smooth'  BY DEF Smooth
    <3>1. NoTrouble /\ client = "app"
      BY <1>1, <1>2 DEF NoTrouble, TypeOK
    <3>2. \A d \in Calls : calls'[d].token = calls[d].token
      BY <2>2, <2>3
    <3>3. \A d \in Calls : \A n : Presents(d, n)' <=> Presents(d, n)
      BY <1>1, <2>2, <2>3 DEF Presents
    <3>4. \A n : Rotatable(n)' <=> Rotatable(n)  BY <1>2 DEF Rotatable, Rows
    <3>5. \A d \in Calls : calls'[d].state \in {"refreshing", "refused"} =>
                            Rotatable(calls[d].token)
      BY <1>1, <2>3, <3>1 DEF IInv, Smooth
    <3>6. \A d \in Calls : calls'[d].state \in {"refreshing", "refused"} =>
                            Rotatable(calls[d].token)'
      BY <1>2, <3>2, <3>5 DEF Rotatable, Rows
    <3>7. \A d, e \in Calls : d # e => ~(Presents(d, calls[e].token) /\ Presents(e, calls[e].token))'
      BY <3>1, <3>2, <3>3 DEF IInv, Smooth, Presents
    <3>8. (store # 0 => Rotatable(store) \/ \E d \in Calls : Presents(d, store))'
      <4>1. store # 0 => Rotatable(store) \/ \E d \in Calls : Presents(d, store)
        BY <3>1 DEF IInv, Smooth
      <4>2. store' = store  BY <1>1
      <4>3. \A d \in Calls : Presents(d, store)' <=> Presents(d, store)
        BY <3>3, <4>2 DEF Presents
      <4>4. Rotatable(store)' <=> Rotatable(store)  BY <1>2, <4>2 DEF Rotatable, Rows
      <4> QED  BY <4>1, <4>2, <4>3, <4>4
    <3> QED  BY <1>1, <3>1, <3>6, <3>7, <3>8 DEF IInv, Smooth
  <2> QED  BY <1>1, <1>2, <2>4, <2>5, <2>6, ServerUntouched DEF IInv
<1>3. CASE Rotatable(calls[c].token) /\ rows' = Rotation(calls[c].token)
           /\ losses' = losses + 1 /\ UNCHANGED errors
  <2>1. losses' \in Nat /\ errors' \in Nat /\ losses' # 0  BY <1>1, <1>3 DEF TypeOK
  <2>2. (TypeOK /\ CodesAreSpent /\ OneTokenPerSignIn /\ SomeTokenPerSignIn /\ RotatedRowsExist)'
    BY <1>1, <1>3, <2>1, RotationKept
  <2> QED  BY <2>1, <2>2 DEF IInv, Smooth, NoTrouble
<1> QED  BY <1>1, <1>2, <1>3 DEF FailToRotate

LEMMA ClientStep ==
  ASSUME IInv,
         (\E c \in Codes : FailToCreate(c)) \/ LeaveSociety \/ Lapse \/ SignOut
  PROVE  IInv'
<1>1. UNCHANGED <<client, codes, rows, calls, losses, errors, dropped, overlapped>>
      /\ admitted' \subseteq admitted
  BY DEF FailToCreate, LeaveSociety, Lapse, SignOut, server
<1>2. TypeOK /\ Len(rows) \in Nat  BY Numbered DEF IInv
<1>3. TypeOK'
  <2>1. lapsed' \in 0..Len(rows) /\ member' \in BOOLEAN /\ store' \in 0..Len(rows)
    <3>1. CASE \E c \in Codes : FailToCreate(c)  BY <1>2, <3>1 DEF TypeOK, FailToCreate
    <3>2. CASE LeaveSociety  BY <1>2, <3>2 DEF TypeOK, LeaveSociety
    <3>3. CASE Lapse  BY <1>2, <3>3 DEF TypeOK, Lapse
    <3>4. CASE SignOut  BY <1>2, <3>4 DEF TypeOK, SignOut, server
    <3> QED  BY <3>1, <3>2, <3>3, <3>4
  <2> QED  BY <1>1, <1>2, <2>1 DEF TypeOK, Codes
<1>4. (CodesAreSpent /\ OneTokenPerSignIn /\ SomeTokenPerSignIn /\ RotatedRowsExist)'
  BY <1>1 DEF IInv, CodesAreSpent, OneTokenPerSignIn, SomeTokenPerSignIn, RotatedRowsExist, Codes, Rows
<1>5. (member' => member) /\ store' \in {store, 0}
  BY DEF FailToCreate, LeaveSociety, Lapse, SignOut, server
<1>6. Smooth'  BY <1>1, <1>5 DEF IInv, Smooth, NoTrouble, Rotatable, Rows, Presents
<1> QED  BY <1>3, <1>4, <1>6 DEF IInv

LEMMA SendStep ==
  ASSUME IInv, NEW c \in Calls, Send(c) \/ Serve(c)
  PROVE  IInv'
<1>1. UNCHANGED <<client, codes, admitted, rows, lapsed, member, store, losses, errors, dropped, overlapped>>
      /\ TypeOK /\ Len(rows) \in Nat
  BY Numbered DEF Send, Serve, server, IInv
<1>2. PICK call : /\ Put(c, call) /\ call.state \in {"idle", "sent", "401"}
                  /\ call \in [state : {"idle", "sent", "401", "refreshing", "rotated", "refused"},
                               token : 0..Len(rows), retry : BOOLEAN]
  <2>1. CASE Send(c)
    <3>1. [state |-> "sent", token |-> store, retry |-> TRUE].state \in {"idle", "sent", "401"}
          /\ [state |-> "sent", token |-> store, retry |-> TRUE]
               \in [state : {"idle", "sent", "401", "refreshing", "rotated", "refused"},
                   token : 0..Len(rows), retry : BOOLEAN]
      BY <1>1 DEF TypeOK
    <3> QED  BY <2>1, <3>1 DEF Send
  <2>2. CASE Serve(c)
    <3> DEFINE call == IF calls[c].token > lapsed THEN Idle ELSE [calls[c] EXCEPT !.state = "401"]
    <3>1. call.state \in {"idle", "sent", "401"}
          /\ call \in [state : {"idle", "sent", "401", "refreshing", "rotated", "refused"},
                       token : 0..Len(rows), retry : BOOLEAN]
      <4>1. calls[c] \in [state : {"idle", "sent", "401", "refreshing", "rotated", "refused"},
                          token : 0..Len(rows), retry : BOOLEAN]
        BY <1>1 DEF TypeOK
      <4> QED  BY <1>1, <4>1 DEF Idle
    <3> QED  BY <2>2, <3>1 DEF Serve
  <2> QED  BY <2>1, <2>2
<1>3. /\ calls' \in [Calls -> [state : {"idle", "sent", "401", "refreshing", "rotated", "refused"},
                              token : 0..Len(rows), retry : BOOLEAN]]
      /\ calls'[c] = call /\ \A d \in Calls \ {c} : calls'[d] = calls[d]
  BY <1>1, <1>2, Replaced
<1>4. calls[c].state \notin {"refreshing", "rotated", "refused"}
  BY DEF Send, Serve, Idle
<1>5. TypeOK'  BY <1>1, <1>3 DEF TypeOK, Codes
<1>6. RotatedRowsExist'  BY <1>1, <1>2, <1>3 DEF IInv, RotatedRowsExist, Rows
<1>7. \A d \in Calls : \A n : Presents(d, n)' <=> Presents(d, n)
  BY <1>2, <1>3, <1>4 DEF Presents
<1>8. Smooth'
  <2>1. \A d \in Calls : calls'[d].state \in {"refreshing", "refused"} => calls'[d] = calls[d]
    BY <1>2, <1>3
  <2>2. \A d, e \in Calls : Presents(d, calls[e].token)' /\ Presents(e, calls[e].token)'
                            => Presents(d, calls[e].token) /\ Presents(e, calls[e].token)
    BY <1>2, <1>3, <1>4 DEF Presents
  <2>3. store' # 0 /\ (\E d \in Calls : Presents(d, store)) => \E d \in Calls : Presents(d, store)'
    BY <1>1, <1>2, <1>3, <1>4 DEF Presents
  <2> QED  BY <1>1, <2>1, <2>2, <2>3 DEF IInv, Smooth, NoTrouble, Rotatable, Rows
<1> QED  BY <1>1, <1>5, <1>6, <1>8, ServerUntouched DEF IInv

(* The only step that may spoil the smooth course by overlapping.          *)
LEMMA Land401Step ==
  ASSUME IInv, NEW c \in Calls, Land401(c)
  PROVE  IInv'
<1>1. /\ UNCHANGED <<client, codes, admitted, rows, lapsed, member, store, losses, errors, dropped>>
      /\ TypeOK /\ Len(rows) \in Nat
  BY Numbered DEF Land401, server, IInv
<1> DEFINE new == [state |-> "refreshing", token |-> store, retry |-> FALSE]
           call == IF calls[c].retry /\ store # 0 THEN new ELSE Idle
<1>2. /\ Put(c, call)
      /\ call \in [state : {"idle", "sent", "401", "refreshing", "rotated", "refused"},
                   token : 0..Len(rows), retry : BOOLEAN]
      /\ call.state \in {"idle", "refreshing"}
      /\ call.state = "refreshing" => store # 0 /\ call.token = store
      /\ overlapped' \in BOOLEAN /\ (overlapped => overlapped')
      /\ call.state = "refreshing" /\ ~overlapped' => \A d \in Calls \ {c} : ~Presents(d, store)
  BY <1>1 DEF Land401, TypeOK, Idle
<1> HIDE DEF call
<1>3. /\ calls' \in [Calls -> [state : {"idle", "sent", "401", "refreshing", "rotated", "refused"},
                              token : 0..Len(rows), retry : BOOLEAN]]
      /\ calls'[c] = call /\ \A d \in Calls \ {c} : calls'[d] = calls[d]
  BY <1>1, <1>2, Replaced
<1>4. calls[c].state = "401"  BY DEF Land401
<1>5. TypeOK'  BY <1>1, <1>2, <1>3 DEF TypeOK, Codes
<1>6. RotatedRowsExist'  BY <1>1, <1>2, <1>3 DEF IInv, RotatedRowsExist, Rows
<1>7. Smooth'
  <2> SUFFICES ASSUME NoTrouble'
               PROVE  /\ ~dropped'
                      /\ \A d \in Calls : calls'[d].state = "refused" =>
                                            client' = "app" /\ Rotatable(calls[d].token)'
                      /\ \A d \in Calls : calls'[d].state = "refreshing" => Rotatable(calls[d].token)'
                      /\ \A d, e \in Calls : d # e => ~(Presents(d, calls[e].token) /\ Presents(e, calls[e].token))'
                      /\ (store # 0 => Rotatable(store) \/ \E d \in Calls : Presents(d, store))'
    BY DEF Smooth
  <2>0. NoTrouble /\ ~overlapped' /\ ~overlapped  BY <1>1, <1>2 DEF NoTrouble
  <2>1. /\ ~dropped
        /\ \A d \in Calls : calls[d].state = "refused" =>
                             client = "app" /\ Rotatable(calls[d].token)
        /\ \A d \in Calls : calls[d].state = "refreshing" => Rotatable(calls[d].token)
        /\ \A d, e \in Calls : d # e => ~(Presents(d, calls[e].token) /\ Presents(e, calls[e].token))
        /\ store # 0 => Rotatable(store) \/ \E d \in Calls : Presents(d, store)
    BY <2>0 DEF IInv, Smooth
  <2>2. call.state = "refreshing" => Rotatable(store)
    BY <1>2, <1>4, <2>0, <2>1 DEF Presents
  <2>3. \A n : Rotatable(n)' <=> Rotatable(n)  BY <1>1, ServerUntouched
  <2>4. \A d \in Calls : calls'[d].state = "refused" =>
                         client' = "app" /\ Rotatable(calls[d].token)'
    <3> SUFFICES ASSUME NEW d \in Calls, calls'[d].state = "refused"
                 PROVE  client' = "app" /\ Rotatable(calls[d].token)'
      OBVIOUS
    <3>1. d # c  BY <1>2, <1>3
    <3> QED  BY <1>1, <1>3, <2>1, <3>1 DEF Rotatable, Rows
  <2>5. \A d \in Calls : calls'[d].state = "refreshing" => Rotatable(calls[d].token)'
    <3> SUFFICES ASSUME NEW d \in Calls, calls'[d].state = "refreshing"
                 PROVE  Rotatable(calls[d].token)'
      OBVIOUS
    <3>1. CASE d = c  BY <1>1, <1>2, <1>3, <2>2, <3>1 DEF Rotatable, Rows
    <3>2. CASE d # c  BY <1>1, <1>3, <2>1, <3>2 DEF Rotatable, Rows
    <3> QED  BY <3>1, <3>2
  <2>6. \A d, e \in Calls : d # e => ~(Presents(d, calls[e].token) /\ Presents(e, calls[e].token))'
    <3> SUFFICES ASSUME NEW d \in Calls, NEW e \in Calls, d # e,
                        (Presents(d, calls[e].token) /\ Presents(e, calls[e].token))'
                 PROVE  FALSE
      OBVIOUS
    <3>1. /\ calls'[d].state \in {"refreshing", "rotated", "refused"}
          /\ calls'[e].state \in {"refreshing", "rotated", "refused"}
          /\ calls'[d].token = calls'[e].token
      BY DEF Presents
    <3>2. CASE d = c  BY <1>2, <1>3, <2>0, <2>1, <3>1, <3>2 DEF Presents
    <3>3. CASE e = c  BY <1>2, <1>3, <2>0, <2>1, <3>1, <3>3 DEF Presents
    <3>4. CASE d # c /\ e # c  BY <1>3, <2>1, <3>1, <3>4 DEF Presents
    <3> QED  BY <3>2, <3>3, <3>4
  <2>7. (store # 0 => Rotatable(store) \/ \E d \in Calls : Presents(d, store))'
    <3>1. \A d \in Calls : Presents(d, store) => Presents(d, store)'
      BY <1>1, <1>3, <1>4 DEF Presents
    <3>2. Rotatable(store) => Rotatable(store)'  BY <1>1 DEF Rotatable, Rows
    <3> QED  BY <1>1, <2>1, <3>1, <3>2
  <2> QED  BY <1>1, <2>1, <2>4, <2>5, <2>6, <2>7
<1> QED  BY <1>1, <1>5, <1>6, <1>7, ServerUntouched DEF IInv

(* The end of a refresh: lost, granted or refused.                         *)
LEMMA RefreshStep ==
  ASSUME IInv, NEW c \in Calls, LoseRefresh(c) \/ LandRotated(c) \/ LandRefused(c)
  PROVE  IInv'
<1>1. /\ UNCHANGED <<client, codes, admitted, rows, lapsed, member, overlapped>>
      /\ TypeOK /\ Len(rows) \in Nat /\ Rows = 1..Len(rows)
  BY Numbered DEF LoseRefresh, LandRotated, LandRefused, server, IInv
<1> DEFINE new == IssuedFor(calls[c].token)
           call == IF LandRotated(c) THEN [state |-> "sent", token |-> new, retry |-> FALSE] ELSE Idle
<1>2. LandRotated(c) => new \in Rows /\ ~rows[new].spent /\ store' = new
  <2> SUFFICES ASSUME LandRotated(c) PROVE new \in Rows /\ ~rows[new].spent /\ store' = new
    OBVIOUS
  <2>1. calls[c].token \in Rows  BY DEF LandRotated, IInv, RotatedRowsExist
  <2>2. \E j \in Rows : rows[j].code = rows[calls[c].token].code /\ ~rows[j].spent
    BY <2>1 DEF IInv, SomeTokenPerSignIn
  <2> QED  BY <2>2 DEF IssuedFor, LandRotated, Saved
<1> HIDE DEF new
<1>3. /\ Put(c, call) /\ call.state \in {"idle", "sent"}
      /\ call \in [state : {"idle", "sent", "401", "refreshing", "rotated", "refused"},
                   token : 0..Len(rows), retry : BOOLEAN]
  BY <1>1, <1>2 DEF LoseRefresh, LandRotated, LandRefused, Idle, new
<1> HIDE DEF call
<1>4. /\ calls' \in [Calls -> [state : {"idle", "sent", "401", "refreshing", "rotated", "refused"},
                              token : 0..Len(rows), retry : BOOLEAN]]
      /\ calls'[c] = call /\ \A d \in Calls \ {c} : calls'[d] = calls[d]
  BY <1>1, <1>3, Replaced
<1>5. /\ store' \in 0..Len(rows) /\ losses' \in Nat /\ errors' \in Nat /\ dropped' \in BOOLEAN
      /\ LoseRefresh(c) => losses' # 0
  <2>1. CASE LoseRefresh(c)  BY <1>1, <2>1 DEF LoseRefresh, TypeOK, server
  <2>2. CASE LandRotated(c)  BY <1>1, <1>2, <2>2 DEF LandRotated, LoseRefresh, TypeOK
  <2>3. CASE LandRefused(c)  BY <1>1, <2>3 DEF LandRefused, LoseRefresh, TypeOK
  <2> QED  BY <2>1, <2>2, <2>3
<1>6. TypeOK'  BY <1>1, <1>4, <1>5 DEF TypeOK, Codes
<1>7. RotatedRowsExist'  BY <1>1, <1>3, <1>4 DEF IInv, RotatedRowsExist, Rows
<1>8. Smooth'
  <2>1. CASE LoseRefresh(c)  BY <1>5, <2>1 DEF Smooth, NoTrouble
  <2>2. CASE LandRefused(c)
    <3>1. losses' = losses /\ calls[c].state = "refused"  BY <2>2 DEF LandRefused
    <3> SUFFICES ASSUME NoTrouble' PROVE Smooth'  BY DEF Smooth
    <3>2. NoTrouble  BY <1>1, <2>2 DEF NoTrouble, LandRefused
    <3>3. client = "app" /\ Rotatable(calls[c].token) /\ ~dropped
      BY <3>1, <3>2 DEF IInv, Smooth
    <3>4. store' = store /\ dropped' = FALSE
      BY <2>2, <3>3 DEF LandRefused
    <3>5. calls'[c].state = "idle"
      BY <1>1, <2>2 DEF LandRefused, Put, Idle, TypeOK
    <3>6. \A n : Rotatable(n)' <=> Rotatable(n)  BY <1>1, ServerUntouched
    <3>7. \A d \in Calls : calls'[d].state \in {"refreshing", "rotated", "refused"} => d # c /\ calls'[d] = calls[d]
      BY <1>3, <1>4
    <3>8. \A d \in Calls : calls'[d].state \in {"refreshing", "refused"} => Rotatable(calls[d].token)'
      BY <1>1, <3>2, <3>7 DEF IInv, Smooth, Rotatable, Rows
    <3>9. \A d, e \in Calls : Presents(d, calls[e].token)' /\ Presents(e, calls[e].token)'
                              => Presents(d, calls[e].token) /\ Presents(e, calls[e].token)
      BY <3>7 DEF Presents
    <3>10. (store # 0 => Rotatable(store) \/ \E d \in Calls : Presents(d, store))'
      <4>1. CASE store = 0 \/ Rotatable(store)  BY <3>4, <3>6, <4>1
      <4>2. CASE store # 0 /\ ~Rotatable(store)
        <5>1. PICK d \in Calls : Presents(d, store)  BY <3>2, <4>2 DEF IInv, Smooth
        <5>2. d # c  BY <3>3, <4>2, <5>1 DEF Presents
        <5> QED  BY <1>4, <3>4, <5>1, <5>2 DEF Presents
      <4> QED  BY <4>1, <4>2
    <3> QED  BY <1>1, <3>2, <3>3, <3>4, <3>8, <3>9, <3>10 DEF IInv, Smooth
  <2>3. CASE LandRotated(c)
    <3>1. losses' = losses /\ dropped' = dropped  BY <2>3 DEF LandRotated
    <3>2. Rotatable(store)'  BY <1>1, <1>2, <2>3 DEF Rotatable, Rows
    <3>3. \A n : Rotatable(n)' <=> Rotatable(n)  BY <1>1, ServerUntouched
    <3>4. \A d \in Calls : calls'[d].state \in {"refreshing", "rotated", "refused"} => d # c /\ calls'[d] = calls[d]
      BY <1>3, <1>4
    <3>5. \A d, e \in Calls : Presents(d, calls[e].token)' /\ Presents(e, calls[e].token)'
                              => Presents(d, calls[e].token) /\ Presents(e, calls[e].token)
      BY <3>4 DEF Presents
    <3>6. \A d \in Calls : calls'[d].state = "refreshing" /\ Rotatable(calls[d].token) => Rotatable(calls[d].token)'
      BY <1>1, <3>4 DEF Rotatable, Rows
    <3> SUFFICES ASSUME NoTrouble' PROVE Smooth'  BY DEF Smooth
    <3>7. NoTrouble  BY <1>1, <2>3 DEF NoTrouble, LandRotated
    <3>8. \A d \in Calls : calls'[d].state = "refused" =>
                           client' = "app" /\ Rotatable(calls[d].token)'
      BY <1>1, <3>4, <3>7 DEF IInv, Smooth, Rotatable, Rows
    <3> QED  BY <1>1, <3>1, <3>2, <3>4, <3>5, <3>6, <3>7, <3>8 DEF IInv, Smooth
  <2> QED  BY <2>1, <2>2, <2>3
<1> QED  BY <1>1, <1>6, <1>7, <1>8, ServerUntouched DEF IInv
-----------------------------------------------------------------------------
LEMMA Initially == Init => IInv
<1> SUFFICES ASSUME Init PROVE IInv  OBVIOUS
<1>1. codes = <<>> /\ rows = <<>> /\ Codes = {} /\ Rows = {} /\ Len(rows) = 0
  BY DEF Init, Codes, Rows
<1>2. codes \in Seq([consumed : BOOLEAN, age : Ages]) /\ rows \in Seq([code : Nat, spent : BOOLEAN])
  BY <1>1, EmptySeq
<1>3. calls \in [Calls -> [state : {"idle", "sent", "401", "refreshing", "rotated", "refused"},
                          token : 0..Len(rows), retry : BOOLEAN]]
  BY <1>1 DEF Init, Idle
<1>4. /\ client \in {"console", "app"} /\ admitted \subseteq Codes /\ member \in BOOLEAN
      /\ dropped \in BOOLEAN /\ overlapped \in BOOLEAN
  BY DEF Init
<1>5. lapsed \in 0..Len(rows) /\ store \in 0..Len(rows) /\ losses \in Nat /\ errors \in Nat
  BY <1>1 DEF Init
<1>6. TypeOK  BY <1>2, <1>3, <1>4, <1>5 DEF TypeOK
<1> QED  BY <1>1, <1>6 DEF Init, IInv, CodesAreSpent, OneTokenPerSignIn, SomeTokenPerSignIn,
                          RotatedRowsExist, Smooth, Idle, Presents

(* The inductive invariant of signing in and refreshing, step by step.     *)
THEOREM Invariance == Spec => []IInv
<1>1. IInv /\ [Next]_vars => IInv'
  <2> SUFFICES ASSUME IInv, [Next]_vars PROVE IInv'  OBVIOUS
  <2>1. CASE SignIn  BY <2>1, CodeStep, CreateStep, ClientStep DEF SignIn
  <2>2. CASE LeaveSociety \/ Lapse \/ SignOut  BY <2>2, ClientStep
  <2>3. ASSUME NEW c \in Calls, Call(c) PROVE IInv'
    BY <2>3, SendStep, Land401Step, RotateStep, FailStep, RefreshStep DEF Call
  <2>4. CASE UNCHANGED vars
    BY <2>4 DEF vars, server, IInv, TypeOK, CodesAreSpent, OneTokenPerSignIn, SomeTokenPerSignIn,
                RotatedRowsExist, Smooth, NoTrouble, Codes, Rows, Rotatable, Presents
  <2> QED  BY <2>1, <2>2, <2>3, <2>4 DEF Next
<1> QED  BY <1>1, Initially, PTL DEF Spec

(* The shapes, for any number of calls, codes and sessions.                *)
THEOREM TypeCorrect == Spec => []TypeOK
<1>1. IInv => TypeOK  BY DEF IInv
<1> QED  BY <1>1, Invariance, PTL

(* A code that was sent to a phone is never worth two usable tokens.       *)
THEOREM TokensAreUnique == Spec => []OneTokenPerSignIn
<1>1. IInv => OneTokenPerSignIn  BY DEF IInv
<1> QED  BY <1>1, Invariance, PTL

(* Rotation alone never signs a member out: not without an overlap, a lost *)
(* answer or (in the console) an error.                                    *)
THEOREM RotationIsNotFelt == Spec => []OnlyTroubleSignsOut
<1>1. IInv => OnlyTroubleSignsOut
  BY DEF IInv, TypeOK, Smooth, NoTrouble, OnlyTroubleSignsOut
<1> QED  BY <1>1, Invariance, PTL
=============================================================================
