--------------------------- MODULE Alerting_proofs ---------------------------
(***************************************************************************)
(* What Alerting promises of its fires, for every number of servers,       *)
(* members, rules and days, whatever the batches add up to.                *)
(***************************************************************************)
EXTENDS Alerting, Counting, FiniteSetTheorems

(* A window starts on a day of the behaviour, at the latest today.         *)
LEMMA StartIsDay ==
    ASSUME NEW w \in Window, NEW d \in Day
    PROVE  StartOf(w, d) \in Day
<1>1. d \in Nat /\ Week \in Nat /\ Week > 0 /\ MaxDay \in Nat
  BY AlertBounds DEF Day
<1>2. d % Week \in 0 .. d
  BY <1>1, SMTT(30)
<1> QED  BY <1>1, <1>2 DEF StartOf, Day

(* An evaluation in its loop is about a rule it has read.                  *)
LEMMA LoopType ==
    ASSUME TypeOK, NEW p \in Server, InLoop(p) \/ Claiming(p)
    PROVE  /\ eval[p] \in Looping
           /\ DOMAIN eval[p].todo # {} /\ DOMAIN eval[p].todo \subseteq Rule
           /\ \A r \in DOMAIN eval[p].todo : eval[p].todo[r] \in Content
<1>1. eval[p] \in Looping
  BY DEF TypeOK, InLoop, Claiming, Idle, Begun, Looping
<1>2. eval[p].todo \in Todo
  BY <1>1 DEF Looping
<1>3. PICK R \in (SUBSET Rule) \ {{}} : eval[p].todo \in [R -> Content]
  BY <1>2 DEF Todo
<1> QED  BY <1>1, <1>3

LEMMA HeadType ==
    ASSUME TypeOK, NEW p \in Server, InLoop(p) \/ Claiming(p)
    PROVE  /\ Head(p) \in Rule /\ Head(p) \in DOMAIN eval[p].todo
           /\ HeadRule(p) \in Content /\ HeadWindow(p) \in Window
           /\ HeadKey(p) \in Key /\ HeadKey(p)[1] = Head(p)
<1>1. Head(p) \in DOMAIN eval[p].todo
  <2>1. DOMAIN eval[p].todo \subseteq Nat
    BY LoopType, AlertRules
  <2> QED  BY <2>1, LoopType, NatHasLeast DEF Head, Min
<1>2. HeadRule(p) \in Content
  BY <1>1, LoopType DEF HeadRule
<1>3. HeadWindow(p) \in Window
  BY <1>2, AlertRules DEF HeadWindow
<1>4. eval[p].member \in Member /\ eval[p].day \in Day
  BY LoopType DEF Looping
<1>5. StartOf(HeadWindow(p), eval[p].day) \in Day
  BY <1>3, <1>4, StartIsDay
<1> QED  BY <1>1, <1>2, <1>3, <1>4, <1>5, LoopType DEF HeadKey, Key

(* The evaluation that follows a rule is an evaluation again, or over.     *)
LEMMA NextRuleLoops ==
    ASSUME TypeOK, NEW p \in Server, InLoop(p) \/ Claiming(p),
           DOMAIN eval[p].todo \ {Head(p)} # {}
    PROVE  NextRule(p) \in Looping
<1> DEFINE rest == DOMAIN eval[p].todo \ {Head(p)}
<1> DEFINE todo == [r \in rest |-> eval[p].todo[r]]
<1>1. NextRule(p) = [eval[p] EXCEPT !.pc = "loop", !.todo = todo]
  BY DEF NextRule
<1>2. rest \in (SUBSET Rule) \ {{}}
  BY LoopType
<1>3. todo \in [rest -> Content]
  BY LoopType
<1> HIDE DEF rest
<1>4. todo \in Todo
  BY <1>2, <1>3 DEF Todo
<1> HIDE DEF todo
<1> QED  BY <1>1, <1>4, LoopType DEF Looping

LEMMA NextRuleType ==
    ASSUME TypeOK, NEW p \in Server, InLoop(p) \/ Claiming(p)
    PROVE  NextRule(p) \in Looping \cup {NULL}
BY NextRuleLoops DEF NextRule

(* The rules an evaluation has yet to come to are rules.                   *)
LEMMA ToComeType ==
    ASSUME TypeOK, NEW p \in Server, ~Idle(p)
    PROVE  ToCome(p) \subseteq Rule /\ eval[p].member \in Member
<1>1. eval[p] \in Begun \cup Looping
  BY DEF TypeOK, Idle
<1>2. CASE eval[p].pc = "rules"
  BY <1>1, <1>2 DEF ToCome, Begun, Looping
<1>3. CASE eval[p].pc # "rules"
  <2>1. InLoop(p) \/ Claiming(p)
    BY <1>1, <1>3 DEF InLoop, Claiming, Idle, Begun, Looping
  <2> QED  BY <1>3, <2>1, LoopType DEF ToCome, Looping
<1> QED  BY <1>2, <1>3

LEMMA SumsType ==
    ASSUME TypeOK, NEW m \in Member, NEW w \in Window, NEW d \in Day
    PROVE  /\ MemberTotal(m, w, d) \in Nat /\ PeriodTotal(w, d) \in Nat
           /\ MemberTotal(m, w, d) <= PeriodTotal(w, d)
           /\ Contributors(w, d) \in Nat
<1> DEFINE B == InWindow(w, d)
<1> DEFINE C == {b \in B : Sender[b] = m}
<1> DEFINE M == {n \in Member : \E b \in B : Sender[b] = n}
<1>1. B \in SUBSET Batch /\ IsFiniteSet(B)
  BY FS_Subset DEF InWindow, TypeOK
<1> HIDE DEF B
<1>2. C \in SUBSET B
  OBVIOUS
<1> HIDE DEF C
<1>3. /\ Sum(TokensIn, C) \in Nat /\ Sum(TokensIn, B) \in Nat
      /\ Sum(TokensIn, C) <= Sum(TokensIn, B)
  <2>1. \A b \in B : TokensIn[b] \in Nat
    BY <1>1, AlertBatches
  <2> QED  BY <1>1, <1>2, <2>1, SumOfPart
<1>4. IsFiniteSet(M)
  BY AlertBatches, FS_Subset
<1>5. Cardinality(M) \in Nat
  BY <1>4, FS_CardinalityType
<1> QED  BY <1>3, <1>5 DEF MemberTotal, PeriodTotal, Contributors, B, C, Sum

-----------------------------------------------------------------------------
LEMMA TypeInit == Init => TypeOK
BY AlertBounds, FS_EmptySet DEF Init, TypeOK, Day

(* The steps of an evaluation keep it one.                                 *)
LEMMA EvalStep ==
    ASSUME TypeOK, [Next]_vars
    PROVE  eval' \in [Server -> Begun \cup Looping \cup {NULL}]
<1> DEFINE E == Begun \cup Looping \cup {NULL}
<1>1. ASSUME NEW p \in Server, NEW b \in Batch, Ingest(p, b) PROVE eval' \in [Server -> E]
  BY <1>1, AlertBatches DEF Ingest, TypeOK, Begun
<1>2. ASSUME NEW p \in Server, LoadRules(p) PROVE eval' \in [Server -> E]
  <2> DEFINE m == eval[p].member
  <2> DEFINE R == {r \in Rule : rules[r] # NULL /\ AppliesTo(rules[r], m)}
  <2> DEFINE e == [pc |-> "loop", member |-> m, day |-> today,
                   todo |-> [r \in R |-> rules[r]],
                   total |-> [w \in Window |-> NULL],
                   period |-> [w \in Window |-> NULL]]
  <2>1. eval' = [eval EXCEPT ![p] = IF R = {} THEN NULL ELSE e]
    BY <1>2 DEF LoadRules
  <2>2. m \in Member
    BY <1>2 DEF LoadRules, Idle, TypeOK, Begun, Looping
  <2>3. ASSUME R # {} PROVE e \in Looping
    <3>1. [r \in R |-> rules[r]] \in [R -> Content] /\ R \in (SUBSET Rule) \ {{}}
      BY <2>3 DEF TypeOK
    <3>2. [r \in R |-> rules[r]] \in Todo
      BY <3>1 DEF Todo
    <3> QED  BY <2>2, <3>2 DEF Looping, TypeOK
  <2> HIDE DEF R, e
  <2> QED  BY <2>1, <2>3 DEF TypeOK
<1>3. ASSUME NEW p \in Server, ReadTotal(p) PROVE eval' \in [Server -> E]
  <2> DEFINE t == MemberTotal(eval[p].member, HeadWindow(p), eval[p].day)
  <2>1. eval[p] \in Looping /\ HeadWindow(p) \in Window
    BY <1>3, LoopType, HeadType DEF ReadTotal
  <2>2. t \in Nat
    BY <2>1, SumsType DEF Looping
  <2>3. eval' = [eval EXCEPT ![p] = [eval[p] EXCEPT !.total =
                    [eval[p].total EXCEPT ![HeadWindow(p)] = t]]]
    BY <1>3 DEF ReadTotal
  <2> HIDE DEF t
  <2>4. [eval[p] EXCEPT !.total = [eval[p].total EXCEPT ![HeadWindow(p)] = t]] \in Looping
    BY <2>1, <2>2 DEF Looping
  <2> QED  BY <2>3, <2>4 DEF TypeOK
<1>4. ASSUME NEW p \in Server, ReadPeriod(p) PROVE eval' \in [Server -> E]
  <2> DEFINE u == [tokens |-> PeriodTotal(HeadWindow(p), eval[p].day),
                   sharers |-> Contributors(HeadWindow(p), eval[p].day)]
  <2>1. eval[p] \in Looping /\ HeadWindow(p) \in Window
    BY <1>4, LoopType, HeadType DEF ReadPeriod
  <2>2. u \in Usage
    BY <2>1, SumsType DEF Looping, Usage
  <2>3. eval' = [eval EXCEPT ![p] = [eval[p] EXCEPT !.period =
                    [eval[p].period EXCEPT ![HeadWindow(p)] = u]]]
    BY <1>4 DEF ReadPeriod
  <2> HIDE DEF u
  <2>4. [eval[p] EXCEPT !.period = [eval[p].period EXCEPT ![HeadWindow(p)] = u]] \in Looping
    BY <2>1, <2>2 DEF Looping
  <2> QED  BY <2>3, <2>4 DEF TypeOK
<1>5. ASSUME NEW p \in Server, Judge(p) PROVE eval' \in [Server -> E]
  <2>1. eval[p] \in Looping /\ NextRule(p) \in Looping \cup {NULL}
    BY <1>5, LoopType, NextRuleType DEF Judge
  <2>2. [eval[p] EXCEPT !.pc = "claim"] \in Looping
    BY <2>1 DEF Looping
  <2>3. \/ eval' = [eval EXCEPT ![p] = [eval[p] EXCEPT !.pc = "claim"]]
        \/ eval' = [eval EXCEPT ![p] = NextRule(p)]
    BY <1>5 DEF Judge
  <2> QED  BY <2>1, <2>2, <2>3 DEF TypeOK
<1>6. ASSUME NEW p \in Server, Claim(p) PROVE eval' \in [Server -> E]
  BY <1>6, NextRuleType DEF Claim, TypeOK
<1>7. ASSUME NEW p \in Server, ClaimThrows(p) \/ EvaluationFails(p) \/ Restart(p)
      PROVE  eval' \in [Server -> E]
  BY <1>7 DEF ClaimThrows, EvaluationFails, GivesUp, Restart, TypeOK
<1>8. ASSUME NEW p \in Server, NEW r \in Rule,
             (\E c \in Content : CreateRule(p, r, c) \/ PatchRule(p, r, c)) \/ DeleteRule(p, r)
      PROVE  eval' \in [Server -> E]
  BY <1>8 DEF CreateRule, PatchRule, RuleWritten, DeleteRule, TypeOK
<1>9. ASSUME NEW d \in sending, Post(d) \/ Retry(d) \/ Record(d) \/ RecordFails(d)
      PROVE  eval' \in [Server -> E]
  BY <1>9 DEF Post, Retry, Record, RecordFails, TypeOK
<1>10. ASSUME Midnight \/ UNCHANGED vars PROVE eval' \in [Server -> E]
  BY <1>10 DEF Midnight, vars, TypeOK
<1> QED
  BY <1>1, <1>2, <1>3, <1>4, <1>5, <1>6, <1>7, <1>8, <1>9, <1>10 DEF Next

(* So do the steps of a delivery keep it one.                              *)
LEMMA SendingStep ==
    ASSUME TypeOK, [Next]_vars
    PROVE  sending' \subseteq Sent
<1>1. ASSUME NEW p \in Server, Claim(p) PROVE sending' \subseteq Sent
  <2>1. [key |-> HeadKey(p), server |-> p, attempt |-> 1, answer |-> "none"] \in Sent
    BY <1>1, HeadType, AlertBounds DEF Claim, Sent
  <2> QED  BY <1>1, <2>1 DEF Claim, TypeOK
<1>2. ASSUME NEW d \in sending, Post(d) PROVE sending' \subseteq Sent
  <2>1. d \in Sent
    BY DEF TypeOK
  <2>2. PICK answer \in {"ok", "refused", "unsure"} :
            sending' = (sending \ {d}) \cup {[d EXCEPT !.answer = answer]}
    BY <1>2 DEF Post
  <2>3. [d EXCEPT !.answer = answer] \in Sent
    BY <2>1 DEF Sent
  <2> QED  BY <2>2, <2>3 DEF TypeOK
<1>3. ASSUME NEW d \in sending, Retry(d) PROVE sending' \subseteq Sent
  <2>1. d \in Sent /\ d.attempt <= Retries
    BY <1>3 DEF TypeOK, Retry, MoreTries
  <2>2. d.attempt + 1 \in 1 .. Retries + 1
    BY <2>1, AlertBounds DEF Sent
  <2>3. [d EXCEPT !.attempt = d.attempt + 1, !.answer = "none"] \in Sent
    BY <2>1, <2>2 DEF Sent
  <2> QED  BY <1>3, <2>3 DEF TypeOK, Retry
<1>4. ASSUME NEW d \in sending, Record(d) \/ RecordFails(d) PROVE sending' \subseteq Sent
  BY <1>4 DEF TypeOK, Record, RecordFails
<1>5. ASSUME NEW p \in Server, Restart(p) PROVE sending' \subseteq Sent
  BY <1>5 DEF TypeOK, Restart
<1>6. ASSUME NEW p \in Server,
             \/ \E b \in Batch : Ingest(p, b)
             \/ LoadRules(p) \/ ReadTotal(p) \/ ReadPeriod(p) \/ Judge(p)
             \/ ClaimThrows(p) \/ EvaluationFails(p)
             \/ \E r \in Rule, c \in Content : CreateRule(p, r, c) \/ PatchRule(p, r, c)
             \/ \E r \in Rule : DeleteRule(p, r)
      PROVE  sending' \subseteq Sent
  BY <1>6 DEF TypeOK, Ingest, LoadRules, ReadTotal, ReadPeriod, Judge, ClaimThrows,
              EvaluationFails, GivesUp, CreateRule, PatchRule, RuleWritten, DeleteRule
<1>7. ASSUME Midnight \/ UNCHANGED vars PROVE sending' \subseteq Sent
  BY <1>7 DEF TypeOK, Midnight, vars
<1> QED  BY <1>1, <1>2, <1>3, <1>4, <1>5, <1>6, <1>7 DEF Next

LEMMA TypeStep == TypeOK /\ [Next]_vars => TypeOK'
<1> SUFFICES ASSUME TypeOK, [Next]_vars PROVE TypeOK'
  OBVIOUS
<1> USE EvalStep, SendingStep DEF TypeOK, admin, outside
<1>1. ASSUME NEW p \in Server,
             \/ \E b \in Batch : Ingest(p, b)
             \/ ReadTotal(p) \/ ReadPeriod(p) \/ Judge(p)
      PROVE  TypeOK'
  BY <1>1, FS_AddElement DEF Ingest, ReadTotal, ReadPeriod, Judge
<1>2. ASSUME NEW p \in Server, LoadRules(p) PROVE TypeOK'
  BY <1>2 DEF LoadRules
<1>3. ASSUME NEW p \in Server, Claim(p) PROVE TypeOK'
  <2>1. HeadKey(p) \in Key
    BY <1>3, HeadType DEF Claim
  <2>2. fires' \in [Key -> Fire \cup {NULL}]
    BY <1>3, <2>1, AlertBounds DEF Claim, Fire, FirstStatus, ClaimedFire
  <2> QED  BY <1>3, <2>2 DEF Claim
<1>4. ASSUME NEW p \in Server, ClaimThrows(p) \/ EvaluationFails(p) PROVE TypeOK'
  <2>1. ~Idle(p)
    BY <1>4 DEF ClaimThrows, EvaluationFails, Claiming
  <2>2. stale' \subseteq Rule \X Member
    BY <1>4, <2>1, ToComeType DEF ClaimThrows, EvaluationFails, GivesUp
  <2>3. faults' \in 0 .. MaxFaults
    BY <1>4, AlertBounds DEF ClaimThrows, EvaluationFails, Fault
  <2> QED  BY <1>4, <2>2, <2>3 DEF ClaimThrows, EvaluationFails, GivesUp
<1>5. ASSUME NEW p \in Server, Restart(p) PROVE TypeOK'
  <2>1. stale' \subseteq Rule \X Member
    BY <1>5, ToComeType DEF Restart
  <2>2. orphaned' \subseteq Key
    BY <1>5 DEF Restart, Sent
  <2> QED  BY <1>5, <2>1, <2>2, AlertBounds DEF Restart, Fault
<1>6. ASSUME NEW p \in Server, NEW r \in Rule,
             \/ \E c \in Content : CreateRule(p, r, c) \/ PatchRule(p, r, c)
             \/ DeleteRule(p, r)
      PROVE  TypeOK'
  BY <1>6 DEF CreateRule, PatchRule, RuleWritten, DeleteRule, FiresLeft
<1>7. ASSUME NEW d \in sending, Post(d) PROVE TypeOK'
  BY <1>7 DEF Post, Sent
<1>8. ASSUME NEW d \in sending, Retry(d) PROVE TypeOK'
  BY <1>8 DEF Retry
<1>9. ASSUME NEW d \in sending, Record(d) PROVE TypeOK'
  BY <1>9, AlertBounds DEF Record, Outcome, Fire, Sent
<1>10. ASSUME NEW d \in sending, RecordFails(d) PROVE TypeOK'
  BY <1>10, AlertBounds DEF RecordFails, Fault, Sent
<1>11. CASE Midnight
  BY <1>11, AlertBounds DEF Midnight, Day
<1>12. CASE UNCHANGED vars
  BY <1>12 DEF vars
<1> QED
  BY <1>1, <1>2, <1>3, <1>4, <1>5, <1>6, <1>7, <1>8, <1>9, <1>10, <1>11, <1>12 DEF Next

(* Every reachable state is well typed.                                    *)
THEOREM TypeCorrect == Spec => []TypeOK
BY TypeInit, TypeStep, PTL DEF Spec

-----------------------------------------------------------------------------
LEMMA FireInit == Init => FireInv
BY AlertBounds
DEF Init, FireInv, LiveRuleIsCreated, FireHasRule, OpenIsUntouched, OneDelivery, PostsAreCounted,
    AnswersAreTrue, NotifiedOnce, OutcomeIsTrue, PendingIsOwned, Pending

(* A claim opens the only delivery of a fire that nobody has posted.       *)
LEMMA ClaimKeepsFires ==
    ASSUME TypeOK, FireInv, NEW p \in Server, Claim(p)
    PROVE  FireInv'
<1> DEFINE k == HeadKey(p)
<1> DEFINE n == [key |-> k, server |-> p, attempt |-> 1, answer |-> "none"]
<1> DEFINE hook == HeadRule(p).hook
<1> USE DEF FireInv, TypeOK
<1>1. /\ k \in Key /\ rules[k[1]] # NULL
      /\ UNCHANGED <<rules, created, endpoint, orphaned>>
  BY HeadType DEF Claim, outside, admin
<1>2. hook \in BOOLEAN
  BY HeadType, AlertRules DEF Claim
<1>3. CASE ~Claimable(k)
  <2>1. UNCHANGED <<fires, sending>>
    BY <1>3 DEF Claim
  <2> QED
    BY <1>1, <2>1 DEF LiveRuleIsCreated, FireHasRule, OpenIsUntouched, Open, OneDelivery,
       PostsAreCounted, AnswersAreTrue, NotifiedOnce, OutcomeIsTrue, PendingIsOwned, Pending
<1>4. CASE Claimable(k)
  <2>1. /\ fires' = [fires EXCEPT ![k] = [status |-> FirstStatus(hook), attempts |-> 0]]
        /\ sending' = IF ~hook THEN sending ELSE sending \cup {n}
    BY <1>4 DEF Claim, ClaimedFire
  <2>2. fires[k] = NULL /\ endpoint[k].posts = 0 /\ \A d \in sending : d.key # k
    BY <1>1, <1>4 DEF Claimable, OpenIsUntouched, Open
  <2>3. /\ fires'[k] # NULL /\ fires'[k].status = FirstStatus(hook)
        /\ FirstStatus(hook) = IF hook THEN "pending" ELSE "skipped"
        /\ \A j \in Key \ {k} : fires'[j] = fires[j]
    <3>1. [status |-> FirstStatus(hook), attempts |-> 0] # NULL
      <4> FirstStatus(hook) \in {"pending", "skipped", "delivered", "failed"}
        BY DEF FirstStatus
      <4> QED  BY AlertNull
    <3> QED  BY <1>1, <2>1, <3>1 DEF FirstStatus
  <2> HIDE DEF k, hook
  <2>4. n.key = k /\ n.answer = "none" /\ n.attempt = 1
    OBVIOUS
  <2> HIDE DEF n
  <2>5. LiveRuleIsCreated' /\ FireHasRule' /\ NotifiedOnce'
    BY <1>1, <2>3 DEF LiveRuleIsCreated, FireHasRule, NotifiedOnce
  <2>6. OpenIsUntouched'
    BY <1>1, <2>1, <2>3, <2>4 DEF OpenIsUntouched, Open
  <2>7. OneDelivery'
    BY <2>1, <2>2, <2>4 DEF OneDelivery
  <2>8. PostsAreCounted' /\ AnswersAreTrue'
    BY <1>1, <2>1, <2>2, <2>4 DEF PostsAreCounted, AnswersAreTrue
  <2>9. OutcomeIsTrue'
    BY <1>1, <2>3 DEF OutcomeIsTrue
  <2>10. PendingIsOwned'
    <3>1. ASSUME NEW j \in Key, Pending(j)'
          PROVE  j \in orphaned' \/ \E d \in sending' : d.key = j
      <4>1. CASE j = k
        BY <1>2, <2>1, <2>3, <2>4, <3>1, <4>1 DEF Pending, hook
      <4>2. CASE j # k
        BY <1>1, <2>1, <2>3, <3>1, <4>2 DEF Pending, PendingIsOwned
      <4> QED  BY <4>1, <4>2
    <3>2. ASSUME NEW d \in sending', rules'[d.key[1]] # NULL
          PROVE  Pending(d.key)'
      <4>1. CASE d \in sending
        <5>1. d.key \in Key /\ d.key # k /\ Pending(d.key)
          BY <1>1, <2>2, <3>2, <4>1 DEF Sent, PendingIsOwned
        <5> QED  BY <2>3, <5>1 DEF Pending
      <4>2. CASE d \notin sending
        BY <2>1, <2>3, <2>4, <4>2 DEF Pending
      <4> QED  BY <4>1, <4>2
    <3> QED  BY <3>1, <3>2 DEF PendingIsOwned
  <2> QED  BY <2>5, <2>6, <2>7, <2>8, <2>9, <2>10
<1> QED  BY <1>3, <1>4

(* A POST is counted by the delivery that makes it.                        *)
LEMMA PostKeepsFires ==
    ASSUME TypeOK, FireInv, NEW d \in sending, Post(d)
    PROVE  FireInv'
<1> USE DEF FireInv, TypeOK
<1>1. PICK answer \in {"ok", "refused", "unsure"}, taken \in BOOLEAN :
          /\ answer = "ok" => taken
          /\ sending' = (sending \ {d}) \cup {[d EXCEPT !.answer = answer]}
          /\ endpoint' = [endpoint EXCEPT
                 ![d.key] = [posts    |-> endpoint[d.key].posts + 1,
                             accepted |-> endpoint[d.key].accepted \/ taken,
                             refused  |-> answer = "refused"]]
  BY DEF Post
<1> DEFINE n == [d EXCEPT !.answer = answer]
<1>2. /\ d \in Sent /\ d.key \in Key /\ d.attempt \in 1 .. Retries + 1 /\ d.answer = "none"
      /\ UNCHANGED <<rules, created, fires, orphaned>>
  BY DEF Sent, Post, admin
<1>3. n.key = d.key /\ n.attempt = d.attempt /\ n.answer = answer
  BY <1>2 DEF Sent
<1>4. /\ endpoint'[d.key].posts = d.attempt
      /\ answer = "ok" => endpoint'[d.key].accepted
      /\ answer = "refused" => endpoint'[d.key].refused
      /\ \A j \in Key \ {d.key} : endpoint'[j] = endpoint[j]
  <2>1. endpoint[d.key].posts = d.attempt - 1
    BY <1>2 DEF PostsAreCounted
  <2>2. endpoint'[d.key] = [posts    |-> endpoint[d.key].posts + 1,
                            accepted |-> endpoint[d.key].accepted \/ taken,
                            refused  |-> answer = "refused"]
    BY <1>1, <1>2
  <2>3. endpoint'[d.key].posts = d.attempt
    BY <1>2, <2>1, <2>2
  <2>4. answer = "ok" => endpoint'[d.key].accepted
    <3>1. endpoint'[d.key].accepted = (endpoint[d.key].accepted \/ taken)
      BY <2>2
    <3> QED  BY <1>1, <3>1
  <2>5. answer = "refused" => endpoint'[d.key].refused
    <3>1. endpoint'[d.key].refused = (answer = "refused")
      BY <2>2
    <3> QED  BY <3>1
  <2>6. \A j \in Key \ {d.key} : endpoint'[j] = endpoint[j]
    BY <1>1, <1>2
  <2> QED  BY <2>3, <2>4, <2>5, <2>6
<1>5. \A e \in sending \ {d} : e.key \in Key /\ e.key # d.key
  BY DEF OneDelivery, Sent
<1>6. sending' = (sending \ {d}) \cup {n}
  BY <1>1
<1> HIDE DEF n
<1>7. LiveRuleIsCreated' /\ FireHasRule'
  BY <1>2 DEF LiveRuleIsCreated, FireHasRule
<1>8. OpenIsUntouched' /\ OneDelivery'
  BY <1>2, <1>3, <1>4, <1>5, <1>6 DEF OpenIsUntouched, Open, OneDelivery
<1>9. PostsAreCounted' /\ AnswersAreTrue'
  BY <1>2, <1>3, <1>4, <1>5, <1>6 DEF PostsAreCounted, AnswersAreTrue
<1>10. NotifiedOnce'
  BY <1>2, <1>4 DEF NotifiedOnce
<1>11. OutcomeIsTrue'
  <2>1. fires[d.key] # NULL => fires[d.key].status = "pending"
    BY <1>2 DEF FireHasRule, PendingIsOwned, Pending
  <2> QED  BY <1>2, <1>4, <2>1 DEF OutcomeIsTrue
<1>12. PendingIsOwned'
  BY <1>2, <1>3, <1>6 DEF PendingIsOwned, Pending
<1> QED  BY <1>7, <1>8, <1>9, <1>10, <1>11, <1>12

(* A retry is the same delivery, one attempt further.                      *)
LEMMA RetryKeepsFires ==
    ASSUME TypeOK, FireInv, NEW d \in sending, Retry(d)
    PROVE  FireInv'
<1> USE DEF FireInv, TypeOK
<1> DEFINE n == [d EXCEPT !.attempt = d.attempt + 1, !.answer = "none"]
<1>1. /\ d \in Sent /\ d.key \in Key /\ d.attempt \in 1 .. Retries + 1
      /\ d.answer = "unsure" /\ sending' = (sending \ {d}) \cup {n}
      /\ UNCHANGED <<rules, created, fires, orphaned, endpoint>>
  BY DEF Sent, Retry, admin, outside
<1>2. n.key = d.key /\ n.attempt = d.attempt + 1 /\ n.answer = "none"
  BY <1>1 DEF Sent
<1>3. \A e \in sending \ {d} : e.key \in Key /\ e.key # d.key
  BY DEF OneDelivery, Sent
<1> HIDE DEF n
<1>4. LiveRuleIsCreated' /\ FireHasRule' /\ NotifiedOnce' /\ OutcomeIsTrue'
  BY <1>1 DEF LiveRuleIsCreated, FireHasRule, NotifiedOnce, OutcomeIsTrue
<1>5. OpenIsUntouched' /\ OneDelivery'
  BY <1>1, <1>2, <1>3 DEF OpenIsUntouched, Open, OneDelivery
<1>6. PostsAreCounted'
  <2>1. endpoint[d.key].posts = n.attempt - 1
    BY <1>1, <1>2, AlertBounds DEF PostsAreCounted
  <2> QED  BY <1>1, <1>2, <2>1 DEF PostsAreCounted
<1>7. AnswersAreTrue'
  BY <1>1, <1>2 DEF AnswersAreTrue
<1>8. PendingIsOwned'
  BY <1>1, <1>2 DEF PendingIsOwned, Pending
<1> QED  BY <1>4, <1>5, <1>6, <1>7, <1>8

(* The record of a delivery says what the far end said to it.              *)
LEMMA RecordKeepsFires ==
    ASSUME TypeOK, FireInv, NEW d \in sending, Record(d)
    PROVE  FireInv'
<1> USE DEF FireInv, TypeOK
<1>1. /\ d \in Sent /\ d.key \in Key /\ d.attempt \in 1 .. Retries + 1
      /\ d.answer \in {"ok", "refused"} \/ (d.answer = "unsure" /\ d.attempt = Retries + 1)
      /\ sending' = sending \ {d}
      /\ UNCHANGED <<rules, created, orphaned, endpoint>>
  BY AlertBounds DEF Sent, Record, Final, MoreTries, admin, outside
<1>2. endpoint[d.key].posts = d.attempt
  BY <1>1 DEF PostsAreCounted
<1>3. \A e \in sending \ {d} : e.key \in Key /\ e.key # d.key
  BY DEF OneDelivery, Sent
<1>4. Outcome(d) # NULL
  <2>1. /\ (IF d.answer = "ok" THEN "delivered" ELSE "failed")
              \in {"pending", "skipped", "delivered", "failed"}
        /\ d.attempt \in Nat
    BY <1>1
  <2> QED  BY <2>1, AlertNull DEF Outcome
<1>5. /\ fires'[d.key] = IF fires[d.key] = NULL THEN NULL ELSE Outcome(d)
      /\ \A k \in Key \ {d.key} : fires'[k] = fires[k]
  BY <1>1 DEF Record
<1>6. /\ Outcome(d).status = IF d.answer = "ok" THEN "delivered" ELSE "failed"
      /\ Outcome(d).attempts = d.attempt
  BY DEF Outcome
<1>7. LiveRuleIsCreated' /\ FireHasRule' /\ NotifiedOnce'
  BY <1>1, <1>5 DEF LiveRuleIsCreated, FireHasRule, NotifiedOnce
<1>8. OpenIsUntouched'
  BY <1>1, <1>4, <1>5 DEF OpenIsUntouched, Open
<1>9. OneDelivery' /\ PostsAreCounted' /\ AnswersAreTrue'
  BY <1>1 DEF OneDelivery, PostsAreCounted, AnswersAreTrue
<1>10. OutcomeIsTrue'
  <2> SUFFICES ASSUME NEW k \in Key, fires'[k] # NULL
      PROVE  /\ fires'[k].status = "delivered" => endpoint[k].accepted
             /\ fires'[k].status = "failed" =>
                    endpoint[k].refused \/ endpoint[k].posts = Retries + 1
             /\ fires'[k].status \in {"delivered", "failed"} =>
                    fires'[k].attempts = endpoint[k].posts
    BY <1>1 DEF OutcomeIsTrue
  <2>1. CASE k = d.key
    <3>1. fires'[k] = Outcome(d)
      BY <1>5, <2>1
    <3> HIDE DEF OutcomeIsTrue
    <3> QED  BY <1>1, <1>2, <1>6, <2>1, <3>1 DEF AnswersAreTrue
  <2>2. CASE k # d.key
    BY <1>5, <2>2 DEF OutcomeIsTrue
  <2> QED  BY <2>1, <2>2
<1>11. PendingIsOwned'
  BY <1>1, <1>3, <1>4, <1>5, <1>6 DEF PendingIsOwned, Pending
<1> QED  BY <1>7, <1>8, <1>9, <1>10, <1>11

(* A delivery cut short leaves its fire pending, and is remembered.        *)
LEMMA CutKeepsFires ==
    ASSUME TypeOK, FireInv, NEW cut \in SUBSET sending,
           sending' = sending \ cut,
           orphaned' = orphaned \cup {d.key : d \in cut},
           UNCHANGED <<rules, created, fires, endpoint>>
    PROVE  FireInv'
<1> USE DEF FireInv
<1>1. LiveRuleIsCreated' /\ FireHasRule' /\ NotifiedOnce' /\ OutcomeIsTrue'
  BY DEF LiveRuleIsCreated, FireHasRule, NotifiedOnce, OutcomeIsTrue
<1>2. OpenIsUntouched' /\ OneDelivery'
  BY DEF OpenIsUntouched, Open, OneDelivery
<1>3. PostsAreCounted' /\ AnswersAreTrue'
  BY DEF PostsAreCounted, AnswersAreTrue
<1>4. PendingIsOwned'
  BY DEF PendingIsOwned, Pending
<1> QED  BY <1>1, <1>2, <1>3, <1>4

(* A rule is created with an id no fire and no delivery knows.             *)
LEMMA CreateKeepsFires ==
    ASSUME TypeOK, FireInv, NEW p \in Server, NEW r \in Rule, NEW c \in Content,
           CreateRule(p, r, c)
    PROVE  FireInv'
<1> USE DEF FireInv, TypeOK
<1>1. /\ r \notin created /\ rules[r] = NULL /\ c # NULL
      /\ rules' = [rules EXCEPT ![r] = c] /\ created' = created \cup {r}
      /\ UNCHANGED <<fires, endpoint, sending, orphaned>>
  BY AlertNull DEF CreateRule, RuleWritten, LiveRuleIsCreated
<1>2. \A k \in Key : k[1] = r => /\ fires[k] = NULL /\ endpoint[k].posts = 0
                                 /\ \A d \in sending : d.key # k
  BY <1>1 DEF FireHasRule, OpenIsUntouched, Open
<1>3. \A k \in Key : k[1] \in Rule
  BY DEF Key
<1>4. LiveRuleIsCreated' /\ FireHasRule' /\ NotifiedOnce' /\ OutcomeIsTrue'
  BY <1>1, <1>3 DEF LiveRuleIsCreated, FireHasRule, NotifiedOnce, OutcomeIsTrue
<1>5. OpenIsUntouched'
  BY <1>1, <1>2, <1>3 DEF OpenIsUntouched, Open
<1>6. OneDelivery' /\ PostsAreCounted' /\ AnswersAreTrue'
  BY <1>1 DEF OneDelivery, PostsAreCounted, AnswersAreTrue
<1>7. PendingIsOwned'
  <2>1. \A d \in sending : d.key \in Key
    BY DEF Sent
  <2> QED  BY <1>1, <1>2, <1>3, <2>1 DEF PendingIsOwned, Pending
<1> QED  BY <1>4, <1>5, <1>6, <1>7

LEMMA PatchKeepsFires ==
    ASSUME TypeOK, FireInv, NEW p \in Server, NEW r \in Rule, NEW c \in Content,
           PatchRule(p, r, c)
    PROVE  FireInv'
<1> USE DEF FireInv, TypeOK
<1>1. /\ rules[r] # NULL /\ c # NULL /\ rules' = [rules EXCEPT ![r] = c]
      /\ UNCHANGED <<created, fires, endpoint, sending, orphaned>>
  BY AlertNull DEF PatchRule, RuleWritten
<1>2. \A q \in Rule : (rules'[q] # NULL) = (rules[q] # NULL)
  BY <1>1
<1>3. (\A k \in Key : k[1] \in Rule) /\ (\A d \in sending : d.key[1] \in Rule)
  BY DEF Key, Sent
<1>4. LiveRuleIsCreated' /\ FireHasRule' /\ NotifiedOnce' /\ OutcomeIsTrue'
  BY <1>1, <1>2, <1>3 DEF LiveRuleIsCreated, FireHasRule, NotifiedOnce, OutcomeIsTrue
<1>5. OpenIsUntouched' /\ OneDelivery' /\ PostsAreCounted' /\ AnswersAreTrue'
  BY <1>1, <1>2, <1>3 DEF OpenIsUntouched, Open, OneDelivery, PostsAreCounted, AnswersAreTrue
<1>6. PendingIsOwned'
  BY <1>1, <1>2, <1>3 DEF PendingIsOwned, Pending
<1> QED  BY <1>4, <1>5, <1>6

(* A deleted rule takes its fires along, and its id never comes back.      *)
LEMMA DeleteKeepsFires ==
    ASSUME TypeOK, FireInv, NEW p \in Server, NEW r \in Rule, DeleteRule(p, r)
    PROVE  FireInv'
<1> USE DEF FireInv, TypeOK
<1>1. /\ r \in created /\ rules' = [rules EXCEPT ![r] = NULL]
      /\ UNCHANGED <<created, endpoint, sending, orphaned>>
  BY DEF DeleteRule, LiveRuleIsCreated, outside
<1>2. \A k \in Key : fires'[k] = IF k[1] = r THEN NULL ELSE fires[k]
  BY DEF DeleteRule, FiresLeft
<1>3. (\A k \in Key : k[1] \in Rule) /\ (\A d \in sending : d.key \in Key)
  BY DEF Key, Sent
<1>4. LiveRuleIsCreated' /\ FireHasRule' /\ NotifiedOnce' /\ OutcomeIsTrue'
  BY <1>1, <1>2, <1>3 DEF LiveRuleIsCreated, FireHasRule, NotifiedOnce, OutcomeIsTrue
<1>5. OpenIsUntouched'
  BY <1>1, <1>2, <1>3 DEF OpenIsUntouched, Open
<1>6. OneDelivery' /\ PostsAreCounted' /\ AnswersAreTrue'
  BY <1>1 DEF OneDelivery, PostsAreCounted, AnswersAreTrue
<1>7. PendingIsOwned'
  BY <1>1, <1>2, <1>3 DEF PendingIsOwned, Pending
<1> QED  BY <1>4, <1>5, <1>6, <1>7

LEMMA FireStep == TypeOK /\ FireInv /\ [Next]_vars => FireInv'
<1> SUFFICES ASSUME TypeOK, FireInv, [Next]_vars PROVE FireInv'
  OBVIOUS
<1>1. ASSUME NEW p \in Server,
             \/ \E b \in Batch : Ingest(p, b)
             \/ LoadRules(p) \/ ReadTotal(p) \/ ReadPeriod(p) \/ Judge(p)
             \/ ClaimThrows(p) \/ EvaluationFails(p)
      PROVE  UNCHANGED <<rules, created, fires, sending, endpoint, orphaned>>
  BY <1>1 DEF Ingest, LoadRules, ReadTotal, ReadPeriod, Judge, ClaimThrows, EvaluationFails,
              GivesUp, admin, outside
<1>2. Midnight \/ UNCHANGED vars
         => UNCHANGED <<rules, created, fires, sending, endpoint, orphaned>>
  BY DEF Midnight, vars, admin
<1>3. ASSUME UNCHANGED <<rules, created, fires, sending, endpoint, orphaned>>
      PROVE  FireInv'
  BY <1>3
  DEF FireInv, LiveRuleIsCreated, FireHasRule, OpenIsUntouched, Open, OneDelivery,
      PostsAreCounted, AnswersAreTrue, NotifiedOnce, OutcomeIsTrue, PendingIsOwned, Pending
<1>4. ASSUME NEW p \in Server, Restart(p) PROVE FireInv'
  <2> DEFINE cut == {d \in sending : d.server = p}
  <2>1. /\ sending' = sending \ cut
        /\ orphaned' = orphaned \cup {d.key : d \in cut}
        /\ UNCHANGED <<rules, created, fires, endpoint>>
    BY <1>4 DEF Restart, admin
  <2>2. cut \in SUBSET sending
    OBVIOUS
  <2> HIDE DEF cut
  <2> QED  BY <2>1, <2>2, CutKeepsFires
<1>5. ASSUME NEW d \in sending, RecordFails(d) PROVE FireInv'
  <2> DEFINE cut == {d}
  <2>1. /\ sending' = sending \ cut
        /\ orphaned' = orphaned \cup {e.key : e \in cut}
        /\ UNCHANGED <<rules, created, fires, endpoint>>
    BY <1>5 DEF RecordFails, admin
  <2>2. cut \in SUBSET sending
    OBVIOUS
  <2> HIDE DEF cut
  <2> QED  BY <2>1, <2>2, CutKeepsFires
<1> QED
  BY <1>1, <1>2, <1>3, <1>4, <1>5, ClaimKeepsFires, PostKeepsFires, RetryKeepsFires,
     RecordKeepsFires, CreateKeepsFires, PatchKeepsFires, DeleteKeepsFires DEF Next

(* The invariant of fires, whatever servers, admins and crashes do.        *)
THEOREM FiresAreSound == Spec => []FireInv
BY TypeCorrect, FireInit, FireStep, PTL DEF Spec

(* However many processes evaluate a member, and however often they        *)
(* restart, a fire is posted by one delivery.                              *)
THEOREM PostedByOneDelivery == Spec => []NotifiedOnce
<1>1. FireInv => NotifiedOnce
  BY DEF FireInv
<1> QED  BY <1>1, FiresAreSound, PTL

(* What alert_fires says of a delivery is what the far end answered.       *)
THEOREM RecordsAreTrue == Spec => []OutcomeIsTrue
<1>1. FireInv => OutcomeIsTrue
  BY DEF FireInv
<1> QED  BY <1>1, FiresAreSound, PTL

(* A pending fire is being delivered, or its delivery was cut short.       *)
THEOREM PendingHasAnOwner == Spec => []PendingIsOwned
<1>1. FireInv => PendingIsOwned
  BY DEF FireInv
<1> QED  BY <1>1, FiresAreSound, PTL

-----------------------------------------------------------------------------
(* A member's sum once read is at most what the rows add up to later, and  *)
(* everybody's sum is read after it.                                       *)
SumsAreRead(e) ==
    \A w \in Window :
        /\ e.total[w] # NULL => e.total[w] <= MemberTotal(e.member, w, e.day)
        /\ e.period[w] # NULL => e.total[w] # NULL /\ e.total[w] <= e.period[w].tokens

SumsInv == \A p \in Server : InLoop(p) \/ Claiming(p) => SumsAreRead(eval[p])

(* What a member's rows add up to after the step is a count, too.          *)
LEMMA SumsTypeLater ==
    ASSUME TypeOK', NEW m \in Member, NEW w \in Window, NEW d \in Day
    PROVE  MemberTotal(m, w, d)' \in Nat
<1> DEFINE C == {b \in InWindow(w, d)' : Sender[b] = m}
<1>1. IsFiniteSet(C) /\ C \subseteq Batch
  BY FS_Subset DEF InWindow, TypeOK
<1>2. MemberTotal(m, w, d)' = Sum(TokensIn, C)
  BY DEF MemberTotal, Sum
<1> HIDE DEF C
<1>3. \A b \in C : TokensIn[b] \in Nat
  BY <1>1, AlertBatches
<1> QED  BY <1>1, <1>2, <1>3, SumNat

(* Rows are only added, so no sum shrinks.                                 *)
LEMMA SumsGrow ==
    ASSUME TypeOK, [Next]_vars, NEW m \in Member, NEW w \in Window, NEW d \in Day
    PROVE  MemberTotal(m, w, d) <= MemberTotal(m, w, d)'
<1> DEFINE B == {b \in InWindow(w, d) : Sender[b] = m}
<1> DEFINE C == {b \in InWindow(w, d)' : Sender[b] = m}
<1>1. stored \subseteq stored' /\ stored' \subseteq Batch
  BY TypeStep DEF TypeOK, Next, Ingest, LoadRules, ReadTotal, ReadPeriod, Judge, Claim,
     ClaimThrows, EvaluationFails, GivesUp, Restart, CreateRule, PatchRule, RuleWritten,
     DeleteRule, Post, Retry, Record, RecordFails, Midnight, vars
<1>2. C \in SUBSET Batch /\ B \in SUBSET C
  BY <1>1 DEF InWindow
<1>3. IsFiniteSet(C)
  BY TypeStep, FS_Subset DEF TypeOK, InWindow
<1>4. MemberTotal(m, w, d) = Sum(TokensIn, B) /\ MemberTotal(m, w, d)' = Sum(TokensIn, C)
  BY DEF MemberTotal, Sum
<1> HIDE DEF B, C
<1>5. \A b \in C : TokensIn[b] \in Nat
  BY <1>2, AlertBatches
<1> QED  BY <1>2, <1>3, <1>4, <1>5, SumOfPart

(* So what held of an evaluation still holds, if it was left alone.        *)
LEMMA SumsKeep ==
    ASSUME TypeOK, [Next]_vars, NEW e \in Looping, SumsAreRead(e)
    PROVE  SumsAreRead(e)'
<1> SUFFICES ASSUME NEW w \in Window, e.total[w] # NULL
    PROVE  e.total[w] <= MemberTotal(e.member, w, e.day)'
  BY DEF SumsAreRead
<1>1. e.member \in Member /\ e.day \in Day /\ e.total[w] \in Nat
  BY DEF Looping
<1>2. MemberTotal(e.member, w, e.day) \in Nat /\ MemberTotal(e.member, w, e.day)' \in Nat
  <2>1. TypeOK'
    BY TypeStep
  <2> QED  BY <1>1, <2>1, SumsType, SumsTypeLater
<1>3. MemberTotal(e.member, w, e.day) <= MemberTotal(e.member, w, e.day)'
  BY <1>1, SumsGrow
<1>4. e.total[w] <= MemberTotal(e.member, w, e.day)
  BY DEF SumsAreRead
<1> QED  BY <1>1, <1>2, <1>3, <1>4

(* Moving on, or to the claim, changes nothing that was read.              *)
LEMMA MovingOn ==
    ASSUME TypeOK, [Next]_vars, NEW p \in Server, InLoop(p) \/ Claiming(p),
           SumsAreRead(eval[p]), NEW e \in Looping,
           e.member = eval[p].member, e.day = eval[p].day,
           e.total = eval[p].total, e.period = eval[p].period
    PROVE  SumsAreRead(e)'
<1>1. SumsAreRead(e)
  BY DEF SumsAreRead
<1> QED  BY <1>1, SumsKeep

LEMMA NextRuleKeepsSums ==
    ASSUME TypeOK, NEW p \in Server, InLoop(p) \/ Claiming(p), NextRule(p) # NULL
    PROVE  /\ NextRule(p) \in Looping
           /\ NextRule(p).member = eval[p].member /\ NextRule(p).day = eval[p].day
           /\ NextRule(p).total = eval[p].total /\ NextRule(p).period = eval[p].period
<1> DEFINE todo == [r \in DOMAIN eval[p].todo \ {Head(p)} |-> eval[p].todo[r]]
<1>1. NextRule(p) = [eval[p] EXCEPT !.pc = "loop", !.todo = todo]
  BY DEF NextRule
<1>2. eval[p] \in Looping
  BY LoopType
<1> HIDE DEF todo
<1> QED  BY <1>1, <1>2, NextRuleType DEF Looping

LEMMA SumsStep == TypeOK /\ SumsInv /\ [Next]_vars => SumsInv'
<1> SUFFICES ASSUME TypeOK, SumsInv, [Next]_vars, NEW p \in Server, (InLoop(p) \/ Claiming(p))'
    PROVE  SumsAreRead(eval[p])'
  BY DEF SumsInv
<1>1. eval'[p] \in Looping
  BY TypeStep DEF TypeOK, InLoop, Claiming, Idle, Begun, Looping
<1>2. PICK e \in Looping : e = eval'[p]
  BY <1>1
<1> SUFFICES SumsAreRead(e)'
  BY <1>2 DEF SumsAreRead, MemberTotal, InWindow
<1>3. ASSUME InLoop(p) \/ Claiming(p),
             e.member = eval[p].member, e.day = eval[p].day,
             e.total = eval[p].total, e.period = eval[p].period
      PROVE  SumsAreRead(e)'
  BY <1>3, MovingOn DEF SumsInv
<1>4. CASE eval'[p] = eval[p]
  BY <1>2, <1>3, <1>4 DEF InLoop, Claiming, Idle
<1>5. CASE LoadRules(p)
  <2>1. e.total = [w \in Window |-> NULL] /\ e.period = [w \in Window |-> NULL]
    BY <1>2, <1>5, AlertNull DEF LoadRules, TypeOK, InLoop, Claiming, Idle
  <2> QED  BY <2>1 DEF SumsAreRead
<1>6. CASE ReadTotal(p)
  <2> DEFINE v == HeadWindow(p)
  <2> DEFINE t == MemberTotal(eval[p].member, v, eval[p].day)
  <2>1. /\ eval[p] \in Looping /\ v \in Window /\ SumsAreRead(eval[p])
        /\ eval[p].total[v] = NULL
    BY <1>6, LoopType, HeadType DEF ReadTotal, SumsInv, NextRead
  <2>2. e = [eval[p] EXCEPT !.total = [eval[p].total EXCEPT ![v] = t]]
    BY <1>2, <1>6 DEF ReadTotal, TypeOK
  <2>3. t \in Nat
    BY <2>1, SumsType DEF Looping
  <2> HIDE DEF t, v
  <2>4. /\ e.member = eval[p].member /\ e.day = eval[p].day /\ e.period = eval[p].period
        /\ e.total[v] = t /\ \A w \in Window \ {v} : e.total[w] = eval[p].total[w]
    BY <2>1, <2>2 DEF Looping
  <2>5. SumsAreRead(e)
    BY <2>1, <2>3, <2>4 DEF SumsAreRead, t
  <2> QED  BY <2>5, SumsKeep
<1>7. CASE ReadPeriod(p)
  <2> DEFINE v == HeadWindow(p)
  <2> DEFINE u == [tokens |-> PeriodTotal(HeadWindow(p), eval[p].day),
                   sharers |-> Contributors(HeadWindow(p), eval[p].day)]
  <2>1. /\ eval[p] \in Looping /\ v \in Window /\ SumsAreRead(eval[p])
        /\ eval[p].total[v] # NULL
    BY <1>7, LoopType, HeadType DEF ReadPeriod, SumsInv, NextRead
  <2>2. e = [eval[p] EXCEPT !.period = [eval[p].period EXCEPT ![v] = u]]
    BY <1>2, <1>7 DEF ReadPeriod, TypeOK
  <2>3. eval[p].total[v] <= u.tokens
    <3>1. /\ MemberTotal(eval[p].member, v, eval[p].day) \in Nat /\ u.tokens \in Nat
          /\ MemberTotal(eval[p].member, v, eval[p].day) <= u.tokens
      BY <2>1, SumsType DEF Looping
    <3>2. /\ eval[p].total[v] \in Nat
          /\ eval[p].total[v] <= MemberTotal(eval[p].member, v, eval[p].day)
      BY <2>1 DEF SumsAreRead, Looping
    <3> HIDE DEF u
    <3> QED  BY <3>1, <3>2
  <2> HIDE DEF u, v
  <2>4. /\ e.member = eval[p].member /\ e.day = eval[p].day /\ e.total = eval[p].total
        /\ e.period[v] = u /\ \A w \in Window \ {v} : e.period[w] = eval[p].period[w]
    BY <2>1, <2>2 DEF Looping
  <2>5. SumsAreRead(e)
    BY <2>1, <2>3, <2>4 DEF SumsAreRead
  <2> QED  BY <2>5, SumsKeep
<1>8. CASE Judge(p)
  <2>1. InLoop(p) /\ eval[p] \in Looping
    BY <1>8, LoopType DEF Judge
  <2>2. e = [eval[p] EXCEPT !.pc = "claim"] \/ e = NextRule(p)
    BY <1>2, <1>8 DEF Judge, TypeOK
  <2>3. CASE e = [eval[p] EXCEPT !.pc = "claim"]
    BY <1>3, <2>1, <2>3 DEF Looping
  <2>4. CASE e = NextRule(p)
    BY <1>2, <1>3, <2>1, <2>4, NextRuleKeepsSums DEF InLoop, Claiming, Idle
  <2> QED  BY <2>2, <2>3, <2>4
<1>9. CASE Claim(p)
  <2>1. Claiming(p) /\ e = NextRule(p)
    BY <1>2, <1>9 DEF Claim, TypeOK
  <2> QED  BY <1>2, <1>3, <2>1, NextRuleKeepsSums DEF InLoop, Claiming, Idle
<1>10. CASE \E b \in Batch : Ingest(p, b)
  BY <1>10 DEF Ingest, TypeOK, InLoop, Claiming
<1>11. CASE ClaimThrows(p) \/ EvaluationFails(p) \/ Restart(p)
  BY <1>11 DEF ClaimThrows, EvaluationFails, GivesUp, Restart, TypeOK, InLoop, Claiming, Idle
<1>12. ASSUME NEW q \in Server \ {p},
              \/ \E b \in Batch : Ingest(q, b)
              \/ LoadRules(q) \/ ReadTotal(q) \/ ReadPeriod(q) \/ Judge(q)
              \/ Claim(q) \/ ClaimThrows(q) \/ EvaluationFails(q) \/ Restart(q)
       PROVE  eval'[p] = eval[p]
  BY <1>12 DEF Ingest, LoadRules, ReadTotal, ReadPeriod, Judge, Claim, ClaimThrows,
               EvaluationFails, GivesUp, Restart, TypeOK
<1>13. ASSUME NEW q \in Server, NEW r \in Rule,
              \/ \E c \in Content : CreateRule(q, r, c) \/ PatchRule(q, r, c)
              \/ DeleteRule(q, r)
       PROVE  eval'[p] = eval[p]
  BY <1>13 DEF CreateRule, PatchRule, RuleWritten, DeleteRule
<1>14. ASSUME NEW d \in sending, Post(d) \/ Retry(d) \/ Record(d) \/ RecordFails(d)
       PROVE  eval'[p] = eval[p]
  BY <1>14 DEF Post, Retry, Record, RecordFails
<1>15. Midnight \/ UNCHANGED vars => eval'[p] = eval[p]
  BY DEF Midnight, vars
<1> QED
  BY <1>4, <1>5, <1>6, <1>7, <1>8, <1>9, <1>10, <1>11, <1>12, <1>13, <1>14, <1>15 DEF Next

(* A share never shows more than a hundred percent, whatever other         *)
(* processes store while it is being read.                                 *)
THEOREM SharesAreShares == Spec => []ShareIsAShare
<1>1. Init => SumsInv
  BY DEF Init, SumsInv, InLoop, Claiming, Idle
<1>2. TypeOK /\ SumsInv => ShareIsAShare
  BY LoopType DEF SumsInv, SumsAreRead, ShareIsAShare
<1> QED  BY <1>1, <1>2, SumsStep, TypeCorrect, PTL DEF Spec

-----------------------------------------------------------------------------
(* Process p has yet to look at rule r for member m, and will find it      *)
(* crossed: it has not read the rules, or it has r as r is now before it,  *)
(* in a window that holds today, too, with no sum of that window or one    *)
(* that crosses.                                                           *)
Watches(p, r, m) ==
    /\ ~Idle(p) /\ eval[p].member = m
    /\ \/ eval[p].pc = "rules"
       \/ /\ eval[p].pc \in {"loop", "claim"}
          /\ r \in DOMAIN eval[p].todo /\ eval[p].todo[r] = rules[r]
          /\ StartOf(rules[r].window, eval[p].day) = StartOf(rules[r].window, today)
          /\ LET read == eval[p].total[rules[r].window]
             IN  read # NULL => read >= rules[r].threshold

(* A tokens rule is crossed today and has not fired, and nothing excuses it. *)
Overdue(r, m) ==
    /\ rules[r] # NULL /\ <<r, m>> \notin stale
    /\ rules[r].metric = "tokens" /\ AppliesTo(rules[r], m)
    /\ MemberTotal(m, rules[r].window, today) >= rules[r].threshold
    /\ fires[<<r, m, StartOf(rules[r].window, today)>>] = NULL

(* Then somebody is on the way to it.                                      *)
WatchInv == \A r \in Rule, m \in Member : Overdue(r, m) => \E p \in Server : Watches(p, r, m)

(* A step that touches neither rows nor rules nor the day makes no rule    *)
(* overdue, unless it forgets what was to be looked at or takes a fire     *)
(* back.                                                                   *)
LEMMA OverdueBefore ==
    ASSUME NEW r, NEW m, UNCHANGED <<stored, rules, today>>, Overdue(r, m)',
           <<r, m>> \notin stale' => <<r, m>> \notin stale,
           \A k \in Key : fires'[k] = NULL => fires[k] = NULL,
           <<r, m, StartOf(rules[r].window, today)>> \in Key
    PROVE  Overdue(r, m)
BY DEF Overdue, MemberTotal, InWindow

(* Two days of one window have its sum.                                    *)
LEMMA SameWindow ==
    ASSUME NEW w, NEW d, NEW e, NEW m, StartOf(w, d) = StartOf(w, e)
    PROVE  MemberTotal(m, w, d) = MemberTotal(m, w, e)
<1>1. InWindow(w, d) = InWindow(w, e)
  BY DEF InWindow, EndOf
<1> QED  BY <1>1 DEF MemberTotal

(* What is over grows by one, or starts again from nothing.                *)
LEMMA OneStepOn ==
    ASSUME NEW n \in Nat, n > 0, NEW d \in Nat, (d + 1) % n # 0
    PROVE  (d + 1) % n = (d % n) + 1
<1> DEFINE e == d + 1
           q == d \div n
           p == e \div n
           r == d % n
           s == e % n
<1>1. /\ q \in Int /\ r \in 0 .. (n - 1) /\ d = n * q + r
      /\ p \in Int /\ s \in 0 .. (n - 1) /\ e = n * p + s
  OBVIOUS
<1>2. s # 0 /\ e = d + 1
  OBVIOUS
<1> HIDE DEF e, q, p, r, s
<1>3. r + 1 - s = n * (p - q)
  BY <1>1, <1>2
<1>4. ~(p - q < 0)
  <2>1. ASSUME p - q < 0 PROVE FALSE
    <3>1. n * (q - p - 1) >= 0 /\ n * (q - p - 1) = n * q - n * p - n
      BY <1>1, <2>1
    <3> QED  BY <1>1, <1>2, <3>1
  <2> QED  BY <2>1
<1>5. ~(p - q > 0)
  <2>1. ASSUME p - q > 0 PROVE FALSE
    <3>1. n * (p - q - 1) >= 0 /\ n * (p - q - 1) = n * p - n * q - n
      BY <1>1, <2>1
    <3> QED  BY <1>1, <1>2, <3>1
  <2> QED  BY <2>1
<1>6. p = q
  BY <1>1, <1>4, <1>5
<1> QED  BY <1>1, <1>2, <1>6 DEF e, r, s

(* A day is the first of its window, or its window is that of the day      *)
(* before.                                                                 *)
LEMMA NextDay ==
    ASSUME NEW w \in Window, NEW d \in Nat, StartOf(w, d + 1) # d + 1
    PROVE  StartOf(w, d + 1) = StartOf(w, d)
<1>1. w = "week" /\ Week \in Nat /\ Week > 0
  BY AlertBounds DEF StartOf, Window
<1>2. (d + 1) % Week # 0
  BY <1>1 DEF StartOf
<1>3. (d + 1) % Week = (d % Week) + 1
  BY <1>1, <1>2, OneStepOn
<1>4. d % Week \in Int
  BY <1>1
<1> QED  BY <1>1, <1>3, <1>4 DEF StartOf

LEMMA DueKey ==
    ASSUME TypeOK, NEW r \in Rule, NEW m \in Member, rules[r] # NULL
    PROVE  /\ rules[r] \in Content /\ rules[r].window \in Window
           /\ <<r, m, StartOf(rules[r].window, today)>> \in Key
<1>1. rules[r] \in Content /\ rules[r].window \in Window /\ today \in Day
  BY AlertRules DEF TypeOK
<1> QED  BY <1>1, StartIsDay DEF Key

(* A process on its way to an overdue rule stays on it, step by step.      *)
LEMMA WatcherSteps ==
    ASSUME TypeOK, NEW p \in Server, NEW r \in Rule, NEW m \in Member,
           Overdue(r, m), Watches(p, r, m), eval[p].pc # "rules",
           ReadTotal(p) \/ ReadPeriod(p) \/ Judge(p) \/ (Claim(p) /\ fires'[
               <<r, m, StartOf(rules[r].window, today)>>] = NULL)
    PROVE  Watches(p, r, m)'
<1> DEFINE w == rules[r].window
<1> DEFINE v == HeadWindow(p)
<1> DEFINE k == <<r, m, StartOf(w, today)>>
<1>1. /\ InLoop(p) \/ Claiming(p)
      /\ eval[p] \in Looping /\ eval[p].member = m
      /\ StartOf(w, eval[p].day) = StartOf(w, today)
      /\ r \in DOMAIN eval[p].todo /\ eval[p].todo[r] = rules[r]
      /\ eval[p].total[w] # NULL => eval[p].total[w] >= rules[r].threshold
  BY LoopType DEF Watches, InLoop, Claiming
<1>2. rules[r] \in Content /\ w \in Window /\ k \in Key /\ v \in Window /\ HeadKey(p) \in Key
  BY <1>1, HeadType, DueKey DEF Overdue
<1>3. UNCHANGED <<rules, today>>
  BY DEF ReadTotal, ReadPeriod, Judge, Claim, admin, outside
<1> HIDE DEF w
<1>4. ASSUME NEW e \in Looping, eval'[p] = e, e.member = m, e.day = eval[p].day,
             r \in DOMAIN e.todo, e.todo[r] = rules[r],
             e.total[w] # NULL => e.total[w] >= rules[r].threshold
      PROVE  Watches(p, r, m)'
  <2>1. e # NULL
    BY AlertIdle
  <2> QED  BY <1>1, <1>3, <1>4, <2>1 DEF Watches, Idle, Looping, w
<1>5. CASE ReadTotal(p)
  <2> DEFINE t == MemberTotal(eval[p].member, v, eval[p].day)
  <2>1. t \in Nat
    BY <1>1, <1>2, SumsType DEF Looping
  <2>2. v = w => t >= rules[r].threshold
    BY <1>1, <1>2, SameWindow DEF Overdue, w, Looping
  <2>3. eval'[p] = [eval[p] EXCEPT !.total = [eval[p].total EXCEPT ![v] = t]]
    BY <1>5 DEF ReadTotal, TypeOK
  <2> HIDE DEF t, v
  <2>4. [eval[p] EXCEPT !.total = [eval[p].total EXCEPT ![v] = t]] \in Looping
    BY <1>1, <1>2, <2>1 DEF Looping
  <2> QED  BY <1>1, <1>2, <1>4, <2>1, <2>2, <2>3, <2>4 DEF Looping
<1>6. CASE ReadPeriod(p)
  <2> DEFINE u == [tokens |-> PeriodTotal(HeadWindow(p), eval[p].day),
                   sharers |-> Contributors(HeadWindow(p), eval[p].day)]
  <2>1. u \in Usage
    BY <1>1, <1>2, SumsType DEF Looping, Usage
  <2>2. eval'[p] = [eval[p] EXCEPT !.period = [eval[p].period EXCEPT ![v] = u]]
    BY <1>6 DEF ReadPeriod, TypeOK
  <2> HIDE DEF u, v
  <2>3. [eval[p] EXCEPT !.period = [eval[p].period EXCEPT ![v] = u]] \in Looping
    BY <1>1, <1>2, <2>1 DEF Looping
  <2> QED  BY <1>1, <1>2, <1>4, <2>2, <2>3 DEF Looping
<1>7. ASSUME Head(p) # r, eval'[p] = NextRule(p) PROVE Watches(p, r, m)'
  <2> DEFINE rest == DOMAIN eval[p].todo \ {Head(p)}
  <2> DEFINE todo == [q \in rest |-> eval[p].todo[q]]
  <2>1. r \in rest
    BY <1>1, <1>7
  <2>2. NextRule(p) = [eval[p] EXCEPT !.pc = "loop", !.todo = todo]
    BY <2>1 DEF NextRule
  <2>3. r \in DOMAIN todo /\ todo[r] = rules[r]
    BY <1>1, <2>1
  <2> HIDE DEF todo
  <2>4. NextRule(p) \in Looping
    BY <1>1, <2>1, NextRuleLoops
  <2> QED  BY <1>1, <1>4, <1>7, <2>2, <2>3, <2>4 DEF Looping
<1>8. CASE Judge(p)
  <2>1. CASE Head(p) = r
    <3>1. HeadRule(p) = rules[r] /\ HeadKey(p) = k /\ v = w
      BY <1>1, <2>1 DEF HeadRule, HeadKey, HeadWindow, w
    <3>2. ~HasFiredInWindow(k)
      BY DEF Overdue, HasFiredInWindow, w
    <3>3. eval[p].total[w] >= rules[r].threshold
      BY <1>1, <1>8, <3>1 DEF Judge, NextRead
    <3>4. Crosses(HeadRule(p), eval[p].total[v], eval[p].period[v].tokens,
                  eval[p].period[v].sharers)
      BY <3>1, <3>3 DEF Crosses, Overdue
    <3>5. eval'[p] = [eval[p] EXCEPT !.pc = "claim"]
      BY <1>8, <3>1, <3>2, <3>4 DEF Judge, TypeOK
    <3>6. [eval[p] EXCEPT !.pc = "claim"] \in Looping
      BY <1>1 DEF Looping
    <3> QED  BY <1>1, <1>4, <3>5, <3>6 DEF Looping
  <2>2. CASE Head(p) # r
    <3>1. eval'[p] = [eval[p] EXCEPT !.pc = "claim"] \/ eval'[p] = NextRule(p)
      BY <1>8 DEF Judge, TypeOK
    <3>2. [eval[p] EXCEPT !.pc = "claim"] \in Looping
      BY <1>1 DEF Looping
    <3> QED  BY <1>1, <1>4, <1>7, <2>2, <3>1, <3>2 DEF Looping
  <2> QED  BY <2>1, <2>2
<1>9. CASE Claim(p) /\ fires'[<<r, m, StartOf(rules[r].window, today)>>] = NULL
  <2>1. eval'[p] = NextRule(p)
    BY <1>9 DEF Claim, TypeOK
  <2>2. ASSUME Head(p) = r PROVE FALSE
    <3>1. HeadKey(p) = k
      BY <1>1, <2>2 DEF HeadRule, HeadKey, HeadWindow, w
    <3>2. fires[k] = NULL
      BY DEF Overdue, w
    <3>3. fires'[k] = ClaimedFire(HeadRule(p).hook)
      BY <1>2, <1>9, <3>1, <3>2 DEF Claim, Claimable, TypeOK
    <3>4. ClaimedFire(HeadRule(p).hook) # NULL
      BY AlertNull DEF ClaimedFire, FirstStatus
    <3> QED  BY <1>9, <3>3, <3>4 DEF w
  <2> QED  BY <1>7, <2>1, <2>2
<1> QED  BY <1>5, <1>6, <1>8, <1>9


(* A process that loads the rules is on its way to all that apply.         *)
LEMMA LoaderWatches ==
    ASSUME TypeOK, NEW p \in Server, NEW r \in Rule, NEW m \in Member,
           LoadRules(p), eval[p].member = m, rules[r] # NULL, AppliesTo(rules[r], m)
    PROVE  Watches(p, r, m)'
<1> DEFINE R == {q \in Rule : rules[q] # NULL /\ AppliesTo(rules[q], m)}
<1> DEFINE e == [pc |-> "loop", member |-> m, day |-> today,
                 todo |-> [q \in R |-> rules[q]],
                 total |-> [w \in Window |-> NULL],
                 period |-> [w \in Window |-> NULL]]
<1>1. r \in R /\ rules[r].window \in Window
  BY DueKey
<1>2. eval'[p] = e
  BY <1>1 DEF LoadRules, TypeOK
<1>3. e # NULL
  <2>1. [q \in R |-> rules[q]] \in [R -> Content] /\ R \in (SUBSET Rule) \ {{}}
    BY <1>1 DEF TypeOK
  <2>2. [q \in R |-> rules[q]] \in Todo
    BY <2>1 DEF Todo
  <2> HIDE DEF R
  <2>3. e \in Looping
    BY <2>2 DEF Looping, TypeOK
  <2> QED  BY <2>3, AlertIdle
<1>4. UNCHANGED <<rules, today>>
  BY DEF LoadRules, admin
<1> QED  BY <1>1, <1>2, <1>3, <1>4 DEF Watches, Idle

(* So it does whatever else happens, until the rule has fired or is to be  *)
(* looked at anew.                                                         *)
LEMMA WatcherStays ==
    ASSUME TypeOK, [Next]_vars, NEW p \in Server, NEW r \in Rule, NEW m \in Member,
           Overdue(r, m), Overdue(r, m)', Watches(p, r, m),
           UNCHANGED <<rules, today>>
    PROVE  \E q \in Server : Watches(q, r, m)'
<1>1. eval[p] \in Begun \cup Looping /\ eval[p].member = m
  BY DEF TypeOK, Watches, Idle
<1>2. CASE eval'[p] = eval[p]
  BY <1>2 DEF Watches, Idle
<1>3. CASE LoadRules(p)
  BY <1>1, <1>3, LoaderWatches DEF Overdue
<1>4. CASE ReadTotal(p) \/ ReadPeriod(p) \/ Judge(p) \/ Claim(p)
  <2>1. eval[p].pc # "rules"
    BY <1>4 DEF ReadTotal, ReadPeriod, Judge, Claim, InLoop, Claiming
  <2>2. fires'[<<r, m, StartOf(rules[r].window, today)>>] = NULL
    BY DEF Overdue
  <2> QED  BY <1>4, <2>1, <2>2, WatcherSteps
<1>5. CASE ClaimThrows(p) \/ EvaluationFails(p) \/ Restart(p)
  BY <1>1, <1>5 DEF ClaimThrows, EvaluationFails, GivesUp, ToCome, Restart, Overdue, Watches
<1>6. CASE \E b \in Batch : Ingest(p, b)
  BY <1>6 DEF Ingest, Watches
<1>7. ASSUME NEW q \in Server \ {p},
             \/ \E b \in Batch : Ingest(q, b)
             \/ LoadRules(q) \/ ReadTotal(q) \/ ReadPeriod(q) \/ Judge(q)
             \/ Claim(q) \/ ClaimThrows(q) \/ EvaluationFails(q) \/ Restart(q)
      PROVE  eval'[p] = eval[p]
  BY <1>7 DEF Ingest, LoadRules, ReadTotal, ReadPeriod, Judge, Claim, ClaimThrows,
              EvaluationFails, GivesUp, Restart, TypeOK
<1>8. ASSUME NEW q \in Server, NEW s \in Rule,
             \/ \E c \in Content : CreateRule(q, s, c) \/ PatchRule(q, s, c)
             \/ DeleteRule(q, s)
      PROVE  eval'[p] = eval[p]
  BY <1>8 DEF CreateRule, PatchRule, DeleteRule
<1>9. ASSUME NEW d \in sending, Post(d) \/ Retry(d) \/ Record(d) \/ RecordFails(d)
      PROVE  eval'[p] = eval[p]
  BY <1>9 DEF Post, Retry, Record, RecordFails
<1>10. Midnight \/ UNCHANGED vars => eval'[p] = eval[p]
  BY DEF Midnight, vars
<1> QED
  BY <1>2, <1>3, <1>4, <1>5, <1>6, <1>7, <1>8, <1>9, <1>10 DEF Next

(* A rule that stands asks for something.                                  *)
RulesAsk == \A r \in Rule : rules[r] # NULL => rules[r].threshold > 0

LEMMA AskStep == TypeOK /\ RulesAsk /\ [Next]_vars => RulesAsk'
<1> SUFFICES ASSUME TypeOK, RulesAsk, [Next]_vars PROVE RulesAsk'
  OBVIOUS
<1>1. ASSUME NEW p \in Server, NEW r \in Rule, NEW c \in Content,
             CreateRule(p, r, c) \/ PatchRule(p, r, c)
      PROVE  RulesAsk'
  BY <1>1 DEF CreateRule, PatchRule, CheckThreshold, RuleWritten, RulesAsk, TypeOK
<1>2. ASSUME NEW p \in Server, NEW r \in Rule, DeleteRule(p, r) PROVE RulesAsk'
  BY <1>2 DEF DeleteRule, RulesAsk, TypeOK
<1>3. ASSUME UNCHANGED rules PROVE RulesAsk'
  BY <1>3 DEF RulesAsk
<1> QED
  BY <1>1, <1>2, <1>3
  DEF Next, Ingest, LoadRules, ReadTotal, ReadPeriod, Judge, Claim, ClaimThrows,
      EvaluationFails, GivesUp, Restart, Post, Retry, Record, RecordFails, Midnight, vars,
      admin

(* At midnight a rule becomes overdue only in a window that goes on, and   *)
(* whoever was on the way to it still is.                                  *)
LEMMA MidnightWatches ==
    ASSUME TypeOK, RulesAsk, WatchInv, Midnight, NEW r \in Rule, NEW m \in Member,
           Overdue(r, m)'
    PROVE  \E q \in Server : Watches(q, r, m)'
<1> DEFINE w == rules[r].window
<1>1. /\ UNCHANGED <<stored, rules, fires, eval>> /\ today' = today + 1 /\ today \in Nat
      /\ stale \subseteq stale'
  BY DEF Midnight, admin, TypeOK, Day
<1>2. rules[r] # NULL /\ w \in Window /\ m \notin DatedAhead(r, today + 1)
  BY DueKey DEF Midnight, Overdue, admin
<1>3. MemberTotal(m, w, today + 1) >= rules[r].threshold
  BY <1>1 DEF Overdue, MemberTotal, InWindow
<1>4. StartOf(w, today + 1) # today + 1
  <2> SUFFICES ASSUME StartOf(w, today + 1) = today + 1 PROVE FALSE
    OBVIOUS
  <2>1. {b \in InWindow(w, today + 1) : Sender[b] = m} = {}
    BY <1>2 DEF DatedAhead
  <2>2. MemberTotal(m, w, today + 1) = 0
    BY <2>1, SumEmpty DEF MemberTotal, Sum
  <2>3. rules[r].threshold > 0
    BY <1>2 DEF RulesAsk
  <2>4. rules[r].threshold \in Nat
    BY <1>2, DueKey, AlertRules
  <2> QED  BY <1>3, <2>2, <2>3, <2>4
<1>5. StartOf(w, today + 1) = StartOf(w, today)
  BY <1>1, <1>2, <1>4, NextDay
<1>6. Overdue(r, m)
  <2>1. MemberTotal(m, w, today) >= rules[r].threshold
    BY <1>3, <1>5, SameWindow
  <2> QED  BY <1>1, <1>5, <2>1 DEF Overdue
<1>7. PICK q \in Server : Watches(q, r, m)
  BY <1>6 DEF WatchInv
<1> QED  BY <1>1, <1>5, <1>7 DEF Watches, Idle

LEMMA WatchStep == TypeOK /\ RulesAsk /\ WatchInv /\ [Next]_vars => WatchInv'
<1> SUFFICES ASSUME TypeOK, RulesAsk, WatchInv, [Next]_vars, NEW r \in Rule, NEW m \in Member,
                    Overdue(r, m)'
             PROVE  \E q \in Server : Watches(q, r, m)'
  BY DEF WatchInv
<1> DEFINE k == <<r, m, StartOf(rules[r].window, today)>>
<1>1. ASSUME NEW q \in Server, NEW b \in Batch, Ingest(q, b)
      PROVE  \E p \in Server : Watches(p, r, m)'
  <2>1. CASE Sender[b] = m
    <3>1. eval'[q] = [pc |-> "rules", member |-> m]
      BY <1>1, <2>1 DEF Ingest, TypeOK
    <3>2. eval'[q] # NULL
      BY <3>1, AlertIdle DEF Begun
    <3> QED  BY <3>1, <3>2 DEF Watches, Idle
  <2>2. CASE Sender[b] # m
    <3>1. UNCHANGED <<rules, today, fires, stale>> /\ \A p \in Server \ {q} : eval'[p] = eval[p]
      BY <1>1 DEF Ingest, TypeOK, admin, outside
    <3>2. \A w, d : MemberTotal(m, w, d)' = MemberTotal(m, w, d)
      <4> SUFFICES ASSUME NEW w, NEW d
                   PROVE  {c \in InWindow(w, d)' : Sender[c] = m}
                             = {c \in InWindow(w, d) : Sender[c] = m}
        BY DEF MemberTotal
      <4> QED  BY <1>1, <2>2 DEF Ingest, InWindow
    <3>3. Overdue(r, m)
      BY <3>1, <3>2 DEF Overdue
    <3>4. PICK p \in Server : Watches(p, r, m)
      BY <3>3 DEF WatchInv
    <3>5. p # q
      BY <1>1, <3>4 DEF Ingest, Watches
    <3> QED  BY <3>1, <3>4, <3>5 DEF Watches, Idle
  <2> QED  BY <2>1, <2>2
<1>2. ASSUME NEW q \in Server, LoadRules(q), eval[q].member = m
      PROVE  \E p \in Server : Watches(p, r, m)'
  <2>1. rules[r] # NULL /\ AppliesTo(rules[r], m)
    BY <1>2 DEF Overdue, LoadRules, admin
  <2> QED  BY <1>2, <2>1, LoaderWatches
<1>3. ASSUME NEW q \in Server, NEW s \in Rule,
             (\E c \in Content : CreateRule(q, s, c) \/ PatchRule(q, s, c)) \/ DeleteRule(q, s)
      PROVE  \E p \in Server : Watches(p, r, m)'
  <2>1. UNCHANGED <<stored, eval, today>> /\ stale \subseteq stale'
    BY <1>3 DEF CreateRule, PatchRule, DeleteRule, outside
  <2>2. s # r
    BY <1>3 DEF CreateRule, PatchRule, DeleteRule, Overdue, TypeOK
  <2>3. rules'[r] = rules[r]
    BY <1>3, <2>2 DEF CreateRule, PatchRule, DeleteRule, RuleWritten, TypeOK
  <2>4. k \in Key
    BY <2>3, DueKey DEF Overdue
  <2>5. fires'[k] = fires[k]
    BY <1>3, <2>2, <2>4 DEF CreateRule, PatchRule, DeleteRule, FiresLeft, Key
  <2>6. Overdue(r, m)
    BY <2>1, <2>3, <2>5 DEF Overdue, MemberTotal, InWindow
  <2>7. PICK p \in Server : Watches(p, r, m)
    BY <2>6 DEF WatchInv
  <2> QED  BY <2>1, <2>3, <2>7 DEF Watches, Idle
<1>4. ASSUME UNCHANGED <<stored, rules, today>>, <<r, m>> \notin stale' => <<r, m>> \notin stale,
             \A j \in Key : fires'[j] = NULL => fires[j] = NULL
      PROVE  \E p \in Server : Watches(p, r, m)'
  <2>1. rules[r] # NULL
    BY <1>4 DEF Overdue
  <2>2. Overdue(r, m)
    BY <1>4, <2>1, DueKey, OverdueBefore
  <2>3. PICK p \in Server : Watches(p, r, m)
    BY <2>2 DEF WatchInv
  <2> QED  BY <1>4, <2>2, <2>3, WatcherStays
<1>5. ASSUME NEW q \in Server, LoadRules(q), eval[q].member # m
      PROVE  \E p \in Server : Watches(p, r, m)'
  BY <1>4, <1>5 DEF LoadRules, admin
<1>6. ASSUME NEW q \in Server,
             \/ ReadTotal(q) \/ ReadPeriod(q) \/ Judge(q)
             \/ ClaimThrows(q) \/ EvaluationFails(q) \/ Restart(q)
      PROVE  \E p \in Server : Watches(p, r, m)'
  BY <1>4, <1>6 DEF ReadTotal, ReadPeriod, Judge, ClaimThrows, EvaluationFails, GivesUp, Restart,
                    admin, outside
<1>7. ASSUME NEW q \in Server, Claim(q)
      PROVE  \E p \in Server : Watches(p, r, m)'
  <2>1. \A j \in Key : fires'[j] = NULL => fires[j] = NULL
    <3>1. ClaimedFire(HeadRule(q).hook) # NULL
      BY AlertNull DEF ClaimedFire, FirstStatus
    <3> QED  BY <1>7, <3>1 DEF Claim, TypeOK
  <2> QED  BY <1>4, <1>7, <2>1 DEF Claim, admin, outside
<1>8. ASSUME NEW d \in sending, Post(d) \/ Retry(d) \/ Record(d) \/ RecordFails(d)
      PROVE  \E p \in Server : Watches(p, r, m)'
  <2>1. \A j \in Key : fires'[j] = NULL => fires[j] = NULL
    <3>1. d.attempt \in Nat
      BY AlertBounds DEF TypeOK, Sent
    <3>2. Outcome(d) # NULL
      BY <3>1, AlertNull DEF Outcome
    <3> QED  BY <1>8, <3>2 DEF Post, Retry, Record, RecordFails, TypeOK, outside
  <2>2. UNCHANGED <<stored, rules, today, stale>>
    BY <1>8 DEF Post, Retry, Record, RecordFails, admin, outside
  <2> QED  BY <1>4, <2>1, <2>2
<1>9. ASSUME Midnight PROVE \E p \in Server : Watches(p, r, m)'
  BY <1>9, MidnightWatches
<1>10. ASSUME UNCHANGED vars PROVE \E p \in Server : Watches(p, r, m)'
  BY <1>4, <1>10 DEF vars
<1> QED
  BY <1>1, <1>2, <1>3, <1>5, <1>6, <1>7, <1>8, <1>9, <1>10 DEF Next

(* A member over a tokens rule in today's window has been alerted once     *)
(* nobody is evaluating them, but for what is in `stale': no interleaving  *)
(* of evaluations, deliveries, midnights and edits of other rules loses a  *)
(* crossing, and an evaluation cut short, whatever its statements throw,   *)
(* loses none that it had come to.                                         *)
THEOREM CrossingsAreAlerted == Spec => []CrossingIsAlerted
<1>1. Init => WatchInv /\ RulesAsk
  BY DEF Init, WatchInv, Overdue, RulesAsk
<1>2. WatchInv => CrossingIsAlerted
  BY DEF WatchInv, CrossingIsAlerted, Overdue, Watches
<1> QED  BY <1>1, <1>2, WatchStep, AskStep, TypeCorrect, PTL DEF Spec
=============================================================================
