--------------------------- MODULE OfficesProofs ---------------------------
(***************************************************************************)
(* What is proved of Registers holds where it is run with the others, as   *)
(* MCOffices states it, and so does what PreviewForm promises.             *)
(***************************************************************************)
EXTENDS MCOffices, WellFoundedInduction, FiniteSetTheorems, TLAPS

RP == INSTANCE RegistersProofs WITH overlapped <- overlappedRequests

(* What is shown and what is under way is of the fields as they stand, as  *)
(* long as nobody types while a preview is computed.                       *)
FormIsCurrent ==
  ~disturbed =>
    /\ preview # None => preview = inputs
    /\ working = "preview" => sent = inputs
    /\ P!IssuedAsPreviewed

LEMMA FormStaysCurrent == FormIsCurrent /\ [P!Next]_(P!vars) => FormIsCurrent'
<1> SUFFICES ASSUME FormIsCurrent, [P!Next]_(P!vars) PROVE FormIsCurrent'
  OBVIOUS
<1> USE DEF FormIsCurrent, P!IssuedAsPreviewed
<1>1. ASSUME NEW i \in Inputs, P!Edit(i) PROVE FormIsCurrent'
  BY <1>1 DEF P!Edit, P!Kept
<1>2. CASE P!RunPreview  BY <1>2 DEF P!RunPreview
<1>3. CASE P!ShowPreview  BY <1>3 DEF P!ShowPreview
<1>4. CASE P!Issue  BY <1>4 DEF P!Issue
<1>5. CASE P!Fail  BY <1>5 DEF P!Fail
<1>6. CASE P!Close  BY <1>6 DEF P!Close
<1>7. CASE UNCHANGED P!vars  BY <1>7 DEF P!vars
<1> QED  BY <1>1, <1>2, <1>3, <1>4, <1>5, <1>6, <1>7 DEF P!Next

(* What RaiseInvoice sends to be issued is what was approved, unless a     *)
(* field changed during the preview.  Every step of the whole is one of    *)
(* the form, or leaves it alone.                                           *)
THEOREM PreviewsAreIssued == OfficesSpec => []UndisturbedPreviewIsIssued
<1>1. OfficesInit => FormIsCurrent
  BY DEF OfficesInit, P!Init, FormIsCurrent, P!IssuedAsPreviewed
<1>2. [OfficesNext]_<<part, vars, registerVars, previewVars, ruleVars>> => [P!Next]_(P!vars)
  BY DEF OfficesNext, previewVars, P!vars
<1>3. FormIsCurrent => UndisturbedPreviewIsIssued
  BY DEF FormIsCurrent, UndisturbedPreviewIsIssued, P!UndisturbedPreviewIsIssued
<1> QED
  BY <1>1, <1>2, <1>3, FormStaysCurrent, PTL DEF OfficesSpec
-----------------------------------------------------------------------------
(* Every step of the whole is one of the registers, or leaves them alone.  *)
LEMMA RegistersRun == OfficesSpec => RP!Spec
<1>1. OfficesInit => RP!Init
  BY DEF OfficesInit, R!Init, RP!Init, R!Idle, RP!Idle
<1>2. R!Next => RP!Next
  BY DEF
    R!RegisterVehicle, RP!RegisterVehicle, R!DeregisterVehicle, RP!DeregisterVehicle,
       R!Free, RP!Free, R!ReadAllot, RP!ReadAllot, R!WriteAllot, RP!WriteAllot,
       R!Release, RP!Release, R!Log, RP!Log, R!ReadAdvance, RP!ReadAdvance,
       R!WriteAdvance, RP!WriteAdvance, R!Acknowledge, RP!Acknowledge, R!CloseAlert,
       RP!CloseAlert, R!Parking, RP!Parking, R!Deliveries, RP!Deliveries, R!Safety,
       RP!Safety, R!Next, RP!Next, R!Take, RP!Take, R!Done, RP!Done, R!Idle, RP!Idle,
       R!Open, RP!Open, R!Final, RP!Final, R!Statuses, RP!Statuses, R!CanTransition,
       RP!CanTransition
<1>3. [OfficesNext]_<<part, vars, registerVars, previewVars, ruleVars>> => [RP!Next]_(RP!vars)
  BY <1>2 DEF OfficesNext, registerVars, RP!vars
<1> QED
  BY <1>1, <1>3, PTL DEF OfficesSpec, RP!Spec

(* allot moves nobody from a slot but for requests that overlap, and never *)
(* gives a car two.                                                        *)
THEOREM CarsStayHere == OfficesSpec => NobodyIsMovedSilently
<1>1. RP!Spec => RP!NobodyIsMovedSilently
  BY RP!CarsStay
<1>2. RP!NobodyIsMovedSilently <=> NobodyIsMovedSilently
  BY DEF NobodyIsMovedSilently, R!NobodyIsMovedSilently, RP!NobodyIsMovedSilently,
     R!vars, RP!vars
<1> QED
  BY <1>1, <1>2, RegistersRun, PTL

(* A settled parcel stays settled but for requests that overlap; the first *)
(* to acknowledge an alert stays the first.                                *)
THEOREM RecordsStandHere == OfficesSpec => SettledRecordsStand
<1>1. RP!Spec => RP!SettledRecordsStand
  BY RP!RecordsStand
<1>2. RP!SettledRecordsStand <=> SettledRecordsStand
  BY DEF SettledRecordsStand, R!SettledRecordsStand, RP!SettledRecordsStand,
     R!vars, RP!vars, R!Final, RP!Final
<1> QED
  BY <1>1, <1>2, RegistersRun, PTL
-----------------------------------------------------------------------------
(* Induction by a least counterexample, on numbers.                        *)
LEMMA LeastNumber ==
  ASSUME NEW S, S \subseteq Nat, S # {}
  PROVE  \E x \in S : \A y \in S : x <= y
<1>1. PICK x \in S : \A y \in S : <<y, x>> \notin OpToRel(<, Nat)
  BY WFMin, NatLessThanWellFounded
<1>2. \A y \in S : ~(y < x)
  BY <1>1 DEF OpToRel
<1> QED
  BY <1>2

LEMMA MinIsThere ==
  ASSUME NEW n \in Nat, NEW S, S \subseteq 1..n, S # {}
  PROVE  M!Min(S) \in S
<1>1. S \subseteq Nat
  OBVIOUS
<1>2. PICK x \in S : \A y \in S : x <= y
  BY <1>1, LeastNumber
<1> QED
  BY <1>2 DEF M!Min

LEMMA MaxIsThere ==
  ASSUME NEW n \in Nat, NEW S, S \subseteq 1..n, S # {}
  PROVE  M!Max(S) \in S
<1> DEFINE T == {n - x : x \in S}
<1>1. PICK t \in T : \A y \in T : t <= y
  <2>1. \A x \in S : n - x \in Nat /\ n - x \in T
    OBVIOUS
  <2>2. T \subseteq Nat /\ T # {}
    BY <2>1
  <2> HIDE DEF T
  <2> QED
    BY <2>2, LeastNumber
<1>2. PICK x \in S : t = n - x
  OBVIOUS
<1>3. ASSUME NEW y \in S PROVE x >= y
  <2>1. n - y \in T
    OBVIOUS
  <2>2. n - x <= n - y
    BY <1>1, <1>2, <2>1
  <2>3. x \in Nat /\ y \in Nat
    OBVIOUS
  <2> QED
    BY <2>2, <2>3
<1> QED
  BY <1>3 DEF M!Max

(* What the rules are compared by, in one number.                          *)
Rank(a) == 3 * (3 - M!Specificity(a)) + (2 - M!ActionCaution[a.action])

LEMMA Weights ==
  ASSUME NEW a \in M!StandingRule
  PROVE  /\ M!Specificity(a) \in 0..3 /\ M!ActionCaution[a.action] \in 0..2
         /\ a.id \in Nat /\ Rank(a) \in Nat
<1>1. M!Specificity(a) \in 0..3
  BY DEF M!Specificity
<1>2. M!ActionCaution[a.action] \in 0..2
  BY DEF M!StandingRule, M!Actions, M!ActionCaution
<1>3. a.id \in Nat
  BY DEF M!StandingRule
<1> QED
  BY <1>1, <1>2, <1>3 DEF Rank

LEMMA BeatsByRank ==
  ASSUME NEW a \in M!StandingRule, NEW b \in M!StandingRule
  PROVE  M!Beats(a, b) <=> Rank(a) < Rank(b) \/ (Rank(a) = Rank(b) /\ a.id < b.id)
BY Weights DEF M!Beats, Rank

LEMMA BetterIsWhoBeats ==
  ASSUME NEW a \in M!StandingRule, NEW b \in M!StandingRule
  PROVE  M!Better(a, b) = IF M!Beats(b, a) THEN b ELSE a
BY Weights DEF M!Better, M!Beats

Unbeaten(a, S) == a \in S /\ \A b \in S : ~M!Beats(b, a)

LEMMA SomeRuleIsUnbeaten ==
  ASSUME NEW S, S \subseteq M!StandingRule, S # {}
  PROVE  \E a \in S : Unbeaten(a, S)
<1> DEFINE Ranks == {Rank(a) : a \in S}
<1>1. Ranks \subseteq Nat /\ Ranks # {}
  BY Weights
<1>2. PICK r \in Ranks : \A y \in Ranks : r <= y
  <2> HIDE DEF Ranks
  <2> QED
    BY <1>1, LeastNumber
<1> DEFINE Ids == {a.id : a \in {b \in S : Rank(b) = r}}
<1>3. Ids \subseteq Nat /\ Ids # {}
  BY Weights
<1>4. PICK i \in Ids : \A y \in Ids : i <= y
  <2> HIDE DEF Ids
  <2> QED
    BY <1>3, LeastNumber
<1>5. PICK a \in S : Rank(a) = r /\ a.id = i
  OBVIOUS
<1>6. ASSUME NEW b \in S PROVE ~M!Beats(b, a)
  <2>1. r <= Rank(b) /\ (Rank(b) = r => i <= b.id)
    BY <1>2, <1>4
  <2>2. Rank(b) \in Nat /\ b.id \in Nat /\ r \in Nat /\ i \in Nat
    BY Weights, <1>1, <1>2, <1>3, <1>4
  <2> QED
    BY <1>5, <2>1, <2>2, BeatsByRank
<1> QED
  BY <1>6 DEF Unbeaten

(* Rows with different keys; of those, one is unbeaten.                    *)
ByKey(S) == S \subseteq M!StandingRule /\ \A a, b \in S : a.id = b.id => a = b

LEMMA OneRuleIsUnbeaten ==
  ASSUME NEW S, ByKey(S), NEW a, NEW b, Unbeaten(a, S), Unbeaten(b, S)
  PROVE  a = b
<1>1. a \in S /\ b \in S /\ a \in M!StandingRule /\ b \in M!StandingRule
  BY DEF Unbeaten, ByKey
<1>2. ~M!Beats(a, b) /\ ~M!Beats(b, a)
  BY <1>1 DEF Unbeaten
<1>3. a.id = b.id
  BY <1>1, <1>2, BeatsByRank, Weights
<1> QED
  BY <1>1, <1>3 DEF ByKey

(* One step of the reduce.                                                 *)
LEMMA BetterStaysUnbeaten ==
  ASSUME NEW S, ByKey(S), NEW a, Unbeaten(a, S), NEW b \in M!StandingRule
  PROVE  Unbeaten(M!Better(a, b), S \cup {b})
<1>1. a \in S /\ a \in M!StandingRule /\ S \subseteq M!StandingRule
  BY DEF Unbeaten, ByKey
<1>2. ~M!Beats(b, b) /\ ~M!Beats(a, a)
  BY <1>1, BeatsByRank, Weights
<1>3. CASE M!Beats(b, a)
  <2>1. \A c \in S : ~M!Beats(c, b)
    <3> SUFFICES ASSUME NEW c \in S, M!Beats(c, b) PROVE FALSE
      OBVIOUS
    <3>1. M!Beats(c, a)
      BY <1>1, <1>3, BeatsByRank, Weights
    <3> QED
      BY <3>1 DEF Unbeaten
  <2> QED
    BY <1>1, <1>2, <1>3, <2>1, BetterIsWhoBeats DEF Unbeaten
<1>4. CASE ~M!Beats(b, a)
  BY <1>1, <1>4, BetterIsWhoBeats DEF Unbeaten
<1> QED
  BY <1>3, <1>4

Best(S) == CHOOSE a \in S : Unbeaten(a, S)

LEMMA BestIsUnbeaten ==
  ASSUME NEW S, ByKey(S), S # {}
  PROVE  Best(S) \in S /\ Unbeaten(Best(S), S)
BY SomeRuleIsUnbeaten DEF Best, ByKey

(* The reduce of the rows at some positions, started with one of them.     *)
Reduced(list, first, D) ==
  M!MapThenFoldSet(LAMBDA rule, best : M!Better(best, rule), list[first],
                   LAMBDA i : list[i], LAMBDA s : M!Max(s), D)

At(list, D) == {list[i] : i \in D}

LEMMA ReduceIsBest ==
  ASSUME NEW list \in Seq(M!StandingRule), ByKey(At(list, DOMAIN list)),
         NEW first \in DOMAIN list, NEW D, D \subseteq DOMAIN list
  PROVE  Reduced(list, first, D) = Best(At(list, D \cup {first}))
<1> DEFINE Of(s) == At(list, s \cup {first})
           Eqn(it) == it = [s \in SUBSET D |->
                              IF s = {} THEN list[first]
                              ELSE M!Better(it[s \ {M!Max(s)}], list[M!Max(s)])]
           g == [s \in SUBSET D |-> Best(Of(s))]
<1>1. \A s \in SUBSET D : ByKey(Of(s)) /\ Of(s) # {}
  BY DEF ByKey, At
<1>2. \A s \in SUBSET D : s # {} => M!Max(s) \in s
  <2>1. Len(list) \in Nat /\ DOMAIN list = 1..Len(list)
    OBVIOUS
  <2> QED
    BY <2>1, MaxIsThere
<1>3. ASSUME NEW s \in SUBSET D, s # {}
      PROVE  g[s] = M!Better(g[s \ {M!Max(s)}], list[M!Max(s)])
  <2>1. PICK m : m = M!Max(s)
    OBVIOUS
  <2>2. PICK t : t = s \ {m}
    OBVIOUS
  <2>3. m \in s /\ t \in SUBSET D /\ s = t \cup {m} /\ list[m] \in M!StandingRule
    BY <1>2, <1>3, <2>1, <2>2
  <2>4. Of(s) = Of(t) \cup {list[m]}
    BY <2>3 DEF At
  <2>5. Unbeaten(g[t], Of(t))
    BY <1>1, <2>3, BestIsUnbeaten
  <2>6. Unbeaten(M!Better(g[t], list[m]), Of(s))
    <3>1. ByKey(Of(t))
      BY <1>1, <2>3
    <3>2. list[m] \in M!StandingRule
      BY <2>3
    <3> HIDE DEF g, Of
    <3>3. Unbeaten(M!Better(g[t], list[m]), Of(t) \cup {list[m]})
      BY <2>5, <3>1, <3>2, BetterStaysUnbeaten
    <3> QED
      BY <2>4, <3>3
  <2>7. Unbeaten(g[s], Of(s))
    BY <1>1, BestIsUnbeaten
  <2>8. g[s] = M!Better(g[t], list[m])
    BY <1>1, <2>6, <2>7, OneRuleIsUnbeaten
  <2> QED
    BY <2>1, <2>2, <2>8
<1>4. g[{}] = list[first]
  <2>1. Of({}) = {list[first]}
    BY DEF At
  <2>2. g[{}] = Best({list[first]})
    BY <2>1
  <2> QED
    BY <1>1, <2>1, <2>2, BestIsUnbeaten
<1>5. Eqn(g)
  <2> DEFINE h == [s \in SUBSET D |->
                     IF s = {} THEN list[first]
                     ELSE M!Better(g[s \ {M!Max(s)}], list[M!Max(s)])]
  <2>1. \A s \in SUBSET D : g[s] = h[s]
    BY <1>3, <1>4
  <2>2. g = h
    BY <2>1
  <2> QED
    BY <2>2
<1>6. PICK it : it = CHOOSE f : Eqn(f)
  OBVIOUS
<1> HIDE DEF g, Eqn
<1>7. Eqn(it)
  BY <1>5, <1>6
<1>8. Reduced(list, first, D) = it[D]
  BY <1>6 DEF Eqn, Reduced, M!MapThenFoldSet
<1>9. \A s \in SUBSET D : it[s] = g[s]
  <2> SUFFICES ASSUME \E s \in SUBSET D : it[s] # g[s] PROVE FALSE
    OBVIOUS
  <2> DEFINE Bad == {s \in SUBSET D : it[s] # g[s]}
  <2>1. IsFiniteSet(D)
    <3>1. Len(list) \in Nat /\ DOMAIN list = 1..Len(list)
      OBVIOUS
    <3>2. IsFiniteSet(1..Len(list))
      BY <3>1, FS_Interval
    <3> QED
      BY <3>1, <3>2, FS_Subset
  <2>2. IsWellFoundedOn(StrictSubsetOrdering(D), SUBSET D)
    BY <2>1, FS_StrictSubsetOrderingWellFounded, FS_FiniteSubsetsOfFinite
  <2>3. PICK s \in Bad : \A t \in Bad : <<t, s>> \notin StrictSubsetOrdering(D)
    <3>1. Bad \subseteq SUBSET D /\ Bad # {}
      OBVIOUS
    <3> HIDE DEF Bad
    <3> QED
      BY <2>2, <3>1, WFMin
  <2>4. s # {}
    BY <1>4, <1>7 DEF Eqn
  <2>5. PICK t : t = s \ {M!Max(s)}
    OBVIOUS
  <2>6. t \in SUBSET D /\ <<t, s>> \in StrictSubsetOrdering(D)
    BY <1>2, <2>4, <2>5 DEF StrictSubsetOrdering
  <2>7. it[t] = g[t]
    BY <2>3, <2>6
  <2>8. it[s] = M!Better(it[t], list[M!Max(s)])
    BY <1>7, <2>4, <2>5 DEF Eqn
  <2> QED
    BY <1>3, <2>4, <2>5, <2>7, <2>8
<1>10. g[D] = Best(Of(D))
  BY DEF g
<1> QED
  BY <1>8, <1>9, <1>10

(* The rows of a flat, whatever order they are read in.                    *)
AreRows(list) ==
  /\ list \in Seq(M!StandingRule)
  /\ \A i, j \in DOMAIN list : list[i].id = list[j].id => i = j

RulesInv == AreRows(rules)

LEMMA RulesByKey ==
  ASSUME NEW list, AreRows(list), NEW D, D \subseteq DOMAIN list
  PROVE  ByKey(At(list, D))
<1>1. \A i \in D : list[i] \in M!StandingRule
  BY DEF AreRows
<1> QED
  BY <1>1 DEF AreRows, ByKey, At

LEMMA SetOfOne == M!ToSet(<<>>) = {} /\ \A x : M!ToSet(<<x>>) = {x}
BY DEF M!ToSet

(* The code's filter and reduce return the winner.                         *)
LEMMA TheReduceWins ==
  ASSUME NEW list, AreRows(list), NEW visitor
  PROVE  M!ToSet(M!MatchStandingRule(list, visitor))
           = M!Winners(M!ToSet(list), visitor)
<1> DEFINE applicable == {i \in DOMAIN list : M!Applies(list[i], visitor)}
           those == At(list, applicable)
<1>1. M!Applicable(M!ToSet(list), visitor) = those
  BY DEF M!Applicable, M!ToSet, At
<1>2. M!Winners(M!ToSet(list), visitor) = {a \in those : Unbeaten(a, those)}
  BY <1>1 DEF M!Winners, Unbeaten
<1>3. CASE applicable = {}
  <2>1. M!MatchStandingRule(list, visitor) = <<>>
    BY <1>3 DEF M!MatchStandingRule
  <2>2. those = {}
    BY <1>3 DEF At
  <2> QED
    BY <1>2, <2>1, <2>2, SetOfOne
<1>4. CASE applicable # {}
  <2>1. PICK first : first = M!Min(applicable)
    OBVIOUS
  <2>2. first \in applicable
    <3>1. Len(list) \in Nat /\ DOMAIN list = 1..Len(list)
      BY DEF AreRows
    <3> QED
      BY <1>4, <2>1, <3>1, MinIsThere
  <2>3. M!MatchStandingRule(list, visitor) = <<Reduced(list, first, applicable \ {first})>>
    BY <1>4, <2>1 DEF M!MatchStandingRule, Reduced
  <2>4. Reduced(list, first, applicable \ {first}) = Best(those)
    <3>1. (applicable \ {first}) \cup {first} = applicable
      BY <2>2
    <3>2. ByKey(At(list, DOMAIN list)) /\ list \in Seq(M!StandingRule)
      BY RulesByKey DEF AreRows
    <3>3. first \in DOMAIN list /\ applicable \ {first} \subseteq DOMAIN list
      BY <2>2
    <3> QED
      BY <3>1, <3>2, <3>3, ReduceIsBest
  <2>5. ByKey(those) /\ those # {}
    BY <1>4, RulesByKey DEF At
  <2>6. {a \in those : Unbeaten(a, those)} = {Best(those)}
    <3> HIDE DEF those
    <3> QED
      BY <2>5, BestIsUnbeaten, OneRuleIsUnbeaten
  <2> QED
    BY <1>2, <2>3, <2>4, <2>6, SetOfOne
<1> QED
  BY <1>3, <1>4

(* A row more, somewhere.                                                  *)
LEMMA InsertedRow ==
  ASSUME NEW S, NEW list \in Seq(S), NEW i \in 1..(Len(list) + 1), NEW e \in S, NEW more,
         more = M!InsertAt(list, i, e)
  PROVE  /\ more \in Seq(S) /\ Len(more) = Len(list) + 1
         /\ \A k \in 1..(Len(list) + 1) :
              more[k] = IF k < i THEN list[k] ELSE IF k = i THEN e ELSE list[k - 1]
<1>1. PICK n \in Nat : n = Len(list)
  OBVIOUS
<1>2. PICK a : a = SubSeq(list, 1, i - 1)
  OBVIOUS
<1>3. PICK b : b = SubSeq(list, i, n)
  OBVIOUS
<1>4. /\ a \in Seq(S) /\ Len(a) = i - 1 /\ \A k \in 1..(i - 1) : a[k] = list[k]
  BY <1>1, <1>2
<1>5. /\ b \in Seq(S) /\ Len(b) = n - i + 1 /\ \A k \in 1..(n - i + 1) : b[k] = list[k + i - 1]
  BY <1>1, <1>3
<1>6. more = (a \o <<e>>) \o b
  BY <1>1, <1>2, <1>3 DEF M!InsertAt
<1>7. PICK c : c = a \o <<e>>
  OBVIOUS
<1>8. /\ c \in Seq(S) /\ Len(c) = i /\ c[i] = e /\ \A k \in 1..(i - 1) : c[k] = list[k]
  BY <1>4, <1>7
<1>9. /\ more \in Seq(S) /\ Len(more) = n + 1
      /\ \A k \in 1..(n + 1) : more[k] = IF k <= i THEN c[k] ELSE b[k - i]
  BY <1>1, <1>5, <1>6, <1>7, <1>8
<1>10. ASSUME NEW k \in 1..(n + 1)
       PROVE  more[k] = IF k < i THEN list[k] ELSE IF k = i THEN e ELSE list[k - 1]
  <2>1. CASE k <= i
    BY <1>8, <1>9, <2>1
  <2>2. CASE k > i
    <3>1. k - i \in 1..(n - i + 1) /\ (k - i) + i - 1 = k - 1
      BY <2>2
    <3>2. b[k - i] = list[(k - i) + i - 1]
      BY <1>5, <3>1
    <3> QED
      BY <1>9, <2>2, <3>1, <3>2
  <2> QED
    BY <2>1, <2>2
<1> QED
  BY <1>1, <1>9, <1>10

(* What a step of the rules is.                                            *)
LEMMA RulesStep ==
  ASSUME RulesInv, M!Next
  PROVE  \E e \in M!StandingRule, i \in 1..(Len(rules) + 1) :
           /\ \A j \in DOMAIN rules : rules[j].id # e.id
           /\ rules' = M!InsertAt(rules, i, e) /\ request' = request
<1>1. PICK shape \in McRuleShapes, i \in 1..MaxRules : M!AddRule(shape, i)
  BY DEF M!Next
<1>2. PICK n \in 1..MaxRules :
        /\ \A j \in DOMAIN rules : rules[j].id # n
        /\ rules' = M!InsertAt(rules, i, [id |-> n, category |-> shape.category,
                                         matcher |-> shape.matcher, action |-> shape.action,
                                         isActive |-> shape.isActive])
  BY <1>1 DEF M!AddRule
<1>3. PICK e : e = [id |-> n, category |-> shape.category, matcher |-> shape.matcher,
                    action |-> shape.action, isActive |-> shape.isActive]
  OBVIOUS
<1>4. e \in M!StandingRule
  <2>1. n \in Nat
    BY RulesAssumption
  <2>2. /\ shape.category \in {"delivery", "guest", AnyCategory}
        /\ shape.matcher \in {"amazon", NoText, Blank}
        /\ shape.action \in M!Actions /\ shape.isActive \in BOOLEAN
    BY DEF McRuleShapes, McActions, M!Actions
  <2> QED
    BY <1>3, <2>1, <2>2 DEF M!StandingRule
<1>5. i \in 1..(Len(rules) + 1) /\ request' = request
  BY <1>1 DEF M!AddRule
<1> QED
  BY <1>2, <1>3, <1>4, <1>5

LEMMA RulesStay == RulesInv /\ [M!Next]_(M!vars) => RulesInv'
<1> SUFFICES ASSUME RulesInv, [M!Next]_(M!vars) PROVE RulesInv'
  OBVIOUS
<1>1. CASE UNCHANGED M!vars
  BY <1>1 DEF M!vars, RulesInv, AreRows
<1>2. CASE M!Next
  <2>1. PICK e \in M!StandingRule, i \in 1..(Len(rules) + 1) :
          /\ \A j \in DOMAIN rules : rules[j].id # e.id
          /\ rules' = M!InsertAt(rules, i, e)
    BY <1>2, RulesStep
  <2>2. PICK n \in Nat : Len(rules) = n /\ DOMAIN rules = 1..n
    BY DEF RulesInv, AreRows
  <2>3. PICK more : more = rules'
    OBVIOUS
  <2>4. /\ more \in Seq(M!StandingRule) /\ Len(more) = n + 1
        /\ \A k \in 1..(n + 1) :
             more[k] = IF k < i THEN rules[k] ELSE IF k = i THEN e ELSE rules[k - 1]
    <3>1. rules \in Seq(M!StandingRule) /\ i \in 1..(Len(rules) + 1)
      BY DEF RulesInv, AreRows
    <3>2. more = M!InsertAt(rules, i, e)
      BY <2>1, <2>3
    <3>3. PICK S : S = M!StandingRule
      OBVIOUS
    <3>4. PICK list : list = rules
      OBVIOUS
    <3>5. list \in Seq(S) /\ i \in 1..(Len(list) + 1) /\ e \in S /\ more = M!InsertAt(list, i, e)
      BY <3>1, <3>2, <3>3, <3>4
    <3>6. /\ more \in Seq(S) /\ Len(more) = Len(list) + 1
          /\ \A k \in 1..(Len(list) + 1) :
                more[k] = IF k < i THEN list[k] ELSE IF k = i THEN e ELSE list[k - 1]
      BY <3>5, InsertedRow
    <3> QED
      BY <2>2, <3>3, <3>4, <3>6
  <2>5. ASSUME NEW j \in 1..(n + 1), NEW k \in 1..(n + 1), more[j].id = more[k].id
        PROVE  j = k
    <3>1. \A m \in 1..(n + 1) :
            \/ m < i /\ m \in 1..n /\ more[m] = rules[m]
            \/ m = i /\ more[m] = e
            \/ m > i /\ m - 1 \in 1..n /\ more[m] = rules[m - 1]
      BY <2>2, <2>4
    <3>2. \A l, m \in 1..n : rules[l].id = rules[m].id => l = m
      BY <2>2 DEF RulesInv, AreRows
    <3>3. \A m \in 1..n : rules[m].id # e.id
      BY <2>1, <2>2
    <3>4. CASE j = i \/ k = i
      BY <2>5, <3>1, <3>3, <3>4
    <3>5. CASE j # i /\ k # i
      <4>1. PICK l \in 1..n : more[j] = rules[l] /\ l = IF j < i THEN j ELSE j - 1
        BY <3>1, <3>5
      <4>2. PICK m \in 1..n : more[k] = rules[m] /\ m = IF k < i THEN k ELSE k - 1
        BY <3>1, <3>5
      <4>3. l = m
        BY <2>5, <3>2, <4>1, <4>2
      <4> QED
        BY <2>2, <3>5, <4>1, <4>2, <4>3
    <3> QED
      BY <3>4, <3>5
  <2> QED
    BY <2>3, <2>4, <2>5 DEF RulesInv, AreRows
<1> QED
  BY <1>1, <1>2

LEMMA RulesStart == OfficesInit => RulesInv
BY DEF OfficesInit, M!Init, RulesInv, AreRows

LEMMA RulesRun ==
  [OfficesNext]_<<part, vars, registerVars, previewVars, ruleVars>> => [M!Next]_(M!vars)
BY DEF OfficesNext, ruleVars, M!vars

(* For any number of rules in any order, the reduce of matchStandingRule   *)
(* finds the applicable rule that none beats.                              *)
THEOREM TheWinnerIsFound == OfficesSpec => []ReduceFindsTheWinner
<1>1. RulesInv => ReduceFindsTheWinner
  BY TheReduceWins DEF RulesInv, ReduceFindsTheWinner, M!ReduceFindsTheWinner
<1> QED
  BY <1>1, RulesStart, RulesStay, RulesRun, PTL DEF OfficesSpec
-----------------------------------------------------------------------------
(* What decides is a rule that applies, which none that applies beats.     *)
LEMMA WhoDecides ==
  ASSUME NEW list, AreRows(list), NEW visitor,
         NEW match, match = M!MatchStandingRule(list, visitor),
         NEW those, those = M!Applicable(M!ToSet(list), visitor)
  PROVE  /\ those # {} => match # <<>>
         /\ match # <<>> => Unbeaten(match[1], those)
<1>1. M!ToSet(match) = {a \in those : Unbeaten(a, those)}
  BY TheReduceWins DEF M!Winners, Unbeaten
<1>2. match = <<>> \/ \E a : match = <<a>>
  BY DEF M!MatchStandingRule
<1>3. CASE match = <<>>
  <2>1. {a \in those : Unbeaten(a, those)} = {}
    BY <1>1, <1>3, SetOfOne
  <2>2. those \subseteq M!StandingRule
    BY DEF AreRows, M!Applicable, M!ToSet
  <2>3. those = {}
    BY <2>1, <2>2, SomeRuleIsUnbeaten
  <2> QED
    BY <1>3, <2>3
<1>4. ASSUME NEW a, match = <<a>> PROVE match[1] = a /\ Unbeaten(a, those)
  BY <1>1, <1>4, SetOfOne
<1> QED
  BY <1>2, <1>3, <1>4

LEMMA OneMoreApplies ==
  ASSUME NEW list, NEW more, NEW visitor, NEW e, M!ToSet(more) = M!ToSet(list) \cup {e}
  PROVE  M!Applicable(M!ToSet(list), visitor) \subseteq M!Applicable(M!ToSet(more), visitor)
         /\ M!Applicable(M!ToSet(more), visitor)
              \subseteq M!Applicable(M!ToSet(list), visitor) \cup {e}
BY DEF M!Applicable

LEMMA OneRowMore ==
  ASSUME NEW S, NEW list \in Seq(S), NEW i \in 1..(Len(list) + 1), NEW e \in S, NEW more,
         more = M!InsertAt(list, i, e)
  PROVE  M!ToSet(more) = M!ToSet(list) \cup {e}
<1>1. PICK n \in Nat : n = Len(list) /\ DOMAIN list = 1..n
  OBVIOUS
<1>2. /\ DOMAIN more = 1..(n + 1)
      /\ \A k \in 1..(n + 1) :
            more[k] = IF k < i THEN list[k] ELSE IF k = i THEN e ELSE list[k - 1]
  BY <1>1, InsertedRow
<1>3. ASSUME NEW k \in 1..(n + 1) PROVE more[k] \in M!ToSet(list) \cup {e}
  <2>1. k < i => k \in 1..n
    BY <1>1
  <2>2. k > i => k - 1 \in 1..n
    BY <1>1
  <2> QED
    BY <1>1, <1>2, <2>1, <2>2 DEF M!ToSet
<1>4. ASSUME NEW k \in 1..n PROVE list[k] \in M!ToSet(more)
  <2>1. CASE k < i
    BY <1>1, <1>2, <2>1 DEF M!ToSet
  <2>2. CASE k >= i
    <3>1. k + 1 \in 1..(n + 1) /\ (k + 1) - 1 = k /\ ~(k + 1 < i) /\ k + 1 # i
      BY <2>2
    <3>2. more[k + 1] = list[k]
      BY <1>2, <3>1
    <3> QED
      BY <1>2, <3>1, <3>2 DEF M!ToSet
  <2> QED
    BY <2>1, <2>2
<1>5. e \in M!ToSet(more)
  BY <1>1, <1>2 DEF M!ToSet
<1> QED
  BY <1>1, <1>2, <1>3, <1>4, <1>5 DEF M!ToSet

(* Nothing but a more specific rule turns a refusal into an approval.      *)
LEMMA ApprovalsAreSpecific ==
  ASSUME NEW a \in M!StandingRule, NEW b \in M!StandingRule, ~M!Beats(a, b),
         a.action # "auto_approve", b.action = "auto_approve"
  PROVE  M!Specificity(b) > M!Specificity(a)
<1>1. M!ActionCaution[a.action] > M!ActionCaution[b.action]
  BY DEF M!StandingRule, M!Actions, M!ActionCaution
<1> QED
  BY <1>1, Weights DEF M!Beats

(* A rule added later never lets in a visitor who was to be refused or to  *)
(* wait, unless it is more specific (matchStandingRule).                   *)
THEOREM LettingInIsSpecific == OfficesSpec => LettingInNeedsAMoreSpecificRule
<1>1. ASSUME RulesInv, RulesInv', M!Next
      PROVE  LET before == M!MatchStandingRule(rules, request)
                 after  == M!MatchStandingRule(rules', request')
             IN  (before # <<>> /\ before[1].action # "auto_approve"
                  /\ after[1].action = "auto_approve")
                 => M!Specificity(after[1]) > M!Specificity(before[1])
  <2>1. PICK more : more = rules'
    OBVIOUS
  <2>2. PICK e \in M!StandingRule, i \in 1..(Len(rules) + 1) :
          rules' = M!InsertAt(rules, i, e) /\ request' = request
    BY <1>1, RulesStep
  <2>3. PICK before : before = M!MatchStandingRule(rules, request)
    OBVIOUS
  <2>4. PICK after : after = M!MatchStandingRule(more, request)
    OBVIOUS
  <2>5. PICK those : those = M!Applicable(M!ToSet(rules), request)
    OBVIOUS
  <2>6. PICK all : all = M!Applicable(M!ToSet(more), request)
    OBVIOUS
  <2>7. AreRows(rules) /\ AreRows(more)
    BY <1>1, <2>1 DEF RulesInv, AreRows
  <2>8. those \subseteq M!StandingRule /\ all \subseteq M!StandingRule
    BY <2>5, <2>6, <2>7 DEF AreRows, M!Applicable, M!ToSet
  <2>9. those \subseteq all
    <3>1. M!ToSet(more) = M!ToSet(rules) \cup {e}
      <4>1. rules \in Seq(M!StandingRule) /\ more = M!InsertAt(rules, i, e)
        BY <2>1, <2>2, <2>7 DEF AreRows
      <4> QED
        BY <4>1, OneRowMore
    <3> QED
      BY <3>1, <2>5, <2>6, OneMoreApplies
  <2>10. SUFFICES ASSUME before # <<>>, before[1].action # "auto_approve",
                         after[1].action = "auto_approve"
                  PROVE  M!Specificity(after[1]) > M!Specificity(before[1])
    BY <2>1, <2>2, <2>3, <2>4
  <2>11. Unbeaten(before[1], those)
    BY <2>3, <2>5, <2>7, <2>10, WhoDecides
  <2>12. all # {}
    BY <2>9, <2>11 DEF Unbeaten
  <2>13. Unbeaten(after[1], all)
    BY <2>4, <2>6, <2>7, <2>12, WhoDecides
  <2>14. ~M!Beats(before[1], after[1])
    BY <2>9, <2>11, <2>13 DEF Unbeaten
  <2>15. before[1] \in M!StandingRule /\ after[1] \in M!StandingRule
    BY <2>8, <2>11, <2>13 DEF Unbeaten
  <2> QED
    BY <2>10, <2>14, <2>15, ApprovalsAreSpecific
<1> QED
  BY <1>1, RulesStart, RulesStay, RulesRun, PTL
  DEF OfficesSpec, LettingInNeedsAMoreSpecificRule, M!LettingInNeedsAMoreSpecificRule
=============================================================================
