-------------------------- MODULE Enrolment_proofs ---------------------------
(***************************************************************************)
(* What Enrolment promises, for every number of servers, codes, members    *)
(* and attempts, every lifetime of a code and size of the cache, and every *)
(* bound on the clock and on the faults.                                   *)
(***************************************************************************)
EXTENDS Enrolment, TLAPS

Cache == [Code -> Row \cup {NULL}]

LEMMA NullIsNone ==
    /\ NULL \notin Row /\ NULL \notin Member
    /\ NULL \notin [attempt : Attempt, now : 0 .. MaxClock]
<1>1. Row \subseteq [expires : Nat, usedBy : Member \cup {NULL}]
  BY EnrolBounds DEF Row
<1>2. [attempt : Attempt, now : 0 .. MaxClock] \subseteq [attempt : Attempt, now : Nat]
  BY EnrolBounds
<1> QED  BY <1>1, <1>2, EnrolNull

-----------------------------------------------------------------------------
(* A cache learns of the code it was asked about, and of no other: another *)
(* entry is what it was, or gone.                                          *)
LEMMA RememberLearns ==
    ASSUME NEW known \in Cache, NEW c \in Code, NEW row \in Row, NEW now,
           NEW after, after = Remember(known, c, row, now)
    PROVE  /\ after \in Cache
           /\ \A d \in Code : \/ after[d] \in {NULL, known[d]}
                              \/ d = c /\ after[d] = row
BY DEF Remember, Cache

LEMMA LookLearns ==
    ASSUME codes \in Cache, NEW known \in Cache, NEW c \in Code, NEW now,
           NEW after, after = AfterLook(known, c, now)
    PROVE  /\ after \in Cache
           /\ \A d \in Code : after[d] \in {NULL, known[d], codes[d]}
<1>1. CASE known[c] # NULL \/ codes[c] = NULL
  BY <1>1 DEF AfterLook
<1>2. CASE ~(known[c] # NULL \/ codes[c] = NULL)
  <2>1. codes[c] \in Row /\ after = Remember(known, c, codes[c], now)
    BY <1>2 DEF AfterLook, Cache
  <2> QED  BY <2>1, RememberLearns
<1> QED  BY <1>1, <1>2

LEMMA LossLearns ==
    ASSUME codes \in Cache, NEW p, settled[p] \in Cache, CodeAt(p) \in Code,
           NEW after, after = CacheAfterLoss(p)
    PROVE  /\ after \in Cache
           /\ \A d \in Code : after[d] \in {NULL, settled[p][d], codes[d]}
<1> DEFINE c == CodeAt(p)
           forgot == Forget(settled[p], c)
<1>1. forgot \in Cache /\ \A d \in Code : forgot[d] \in {NULL, settled[p][d]}
  BY DEF Forget, Cache
<1>2. CASE ~LooksOpen(p)
  BY <1>2, LookLearns DEF CacheAfterLoss
<1>3. CASE LooksOpen(p)
  <2>1. after = AfterLook(forgot, c, Now(p))
    BY <1>3 DEF CacheAfterLoss
  <2> HIDE DEF forgot
  <2>2. after \in Cache /\ \A d \in Code : after[d] \in {NULL, forgot[d], codes[d]}
    BY <1>1, <2>1, LookLearns
  <2> QED  BY <1>1, <2>2
<1> QED  BY <1>2, <1>3

-----------------------------------------------------------------------------
UsedAreMembers ==
    \A c \in Code : codes[c] # NULL /\ codes[c].usedBy # NULL => codes[c].usedBy \in members

RowsAreIssued ==
    \A c \in Code : /\ codes[c] # NULL => c \in issued
                    /\ \A p \in Server : settled[p][c] # NULL => c \in issued

TimesArePast == /\ clock <= latest
                /\ \A p \in Server : call[p] # NULL => call[p].now <= latest

(* The inductive invariant.                                                *)
EnrolInv == /\ TypeOK
            /\ TokensAreBacked /\ MembersAreInvited /\ CacheAgrees
            /\ UsedAreMembers /\ RowsAreIssued /\ TimesArePast

LEMMA InitInv == Init => EnrolInv
<1> SUFFICES ASSUME Init PROVE EnrolInv
  OBVIOUS
<1>1. TypeOK
  BY EnrolBounds DEF Init, TypeOK
<1> QED  BY <1>1, EnrolBounds DEF Init, EnrolInv, TokensAreBacked, MembersAreInvited, CacheAgrees,
            UsedAreMembers, RowsAreIssued, TimesArePast

(* Codes that expired unspent leave the table, and no other row changes.   *)
LEMMA PruneKeeps ==
    ASSUME codes \in Cache
    PROVE  /\ Pruned \in Cache
           /\ \A c \in Code : \/ Pruned[c] = codes[c]
                              \/ Pruned[c] = NULL /\ codes[c].usedBy = NULL
BY DEF Pruned, Stale, Cache

LEMMA InviteInv == ASSUME EnrolInv, NEW c \in Code, Invite(c) PROVE EnrolInv'
<1> USE NullIsNone
<1> DEFINE row == [expires |-> ExpiryOf(clock), usedBy |-> NULL]
<1>1. codes \in Cache /\ codes[c] = NULL /\ \A p \in Server : settled[p][c] = NULL
  BY DEF EnrolInv, TypeOK, Cache, RowsAreIssued, Invite
<1>2. row \in Row /\ row.usedBy = NULL
  BY EnrolBounds DEF EnrolInv, TypeOK, Row, ExpiryOf
<1> HIDE DEF row
<1>3. /\ Pruned \in Cache
      /\ \A d \in Code : \/ Pruned[d] = codes[d]
                         \/ Pruned[d] = NULL /\ codes[d].usedBy = NULL
  BY <1>1, PruneKeeps
<1>4. codes' = [Pruned EXCEPT ![c] = row]
  BY DEF Invite, row
<1>5. /\ codes' \in Cache /\ codes'[c] = row
      /\ \A d \in Code \ {c} : \/ codes'[d] = codes[d]
                               \/ codes'[d] = NULL /\ codes[d].usedBy = NULL
  BY <1>2, <1>3, <1>4 DEF Cache
<1>6. UNCHANGED <<members, settled, call, phase, grant, clock, latest, undone, faults>>
  BY DEF Invite, time
<1>7. issued' = issued \cup {c}
  BY DEF Invite
<1>8. TypeOK'
  BY <1>5, <1>6, <1>7 DEF EnrolInv, TypeOK, Cache
<1>9. TokensAreBacked'
  BY <1>1, <1>5, <1>6, EnrolAttempts DEF EnrolInv, TokensAreBacked, TypeOK
<1>10. MembersAreInvited'
  BY <1>1, <1>2, <1>5, <1>6 DEF EnrolInv, MembersAreInvited, TypeOK
<1>11. CacheAgrees'
  BY <1>1, <1>5, <1>6 DEF EnrolInv, CacheAgrees
<1>12. UsedAreMembers' /\ RowsAreIssued' /\ TimesArePast'
  BY <1>2, <1>5, <1>6, <1>7 DEF EnrolInv, UsedAreMembers, RowsAreIssued, TimesArePast
<1> QED  BY <1>8, <1>9, <1>10, <1>11, <1>12 DEF EnrolInv

LEMMA PruneInv == ASSUME EnrolInv, Prune PROVE EnrolInv'
<1> USE NullIsNone
<1>1. codes \in Cache
  BY DEF EnrolInv, TypeOK, Cache
<1>2. /\ codes' \in Cache
      /\ \A d \in Code : \/ codes'[d] = codes[d]
                         \/ codes'[d] = NULL /\ codes[d].usedBy = NULL
  BY <1>1, PruneKeeps DEF Prune
<1>3. UNCHANGED <<issued, members, settled, call, phase, grant, clock, latest, undone, faults>>
  BY DEF Prune, time
<1>4. TypeOK'
  BY <1>2, <1>3 DEF EnrolInv, TypeOK, Cache
<1>5. TokensAreBacked'
  BY <1>2, <1>3, EnrolAttempts DEF EnrolInv, TokensAreBacked, TypeOK
<1>6. MembersAreInvited'
  BY <1>2, <1>3 DEF EnrolInv, MembersAreInvited, TypeOK
<1>7. CacheAgrees' /\ UsedAreMembers' /\ RowsAreIssued' /\ TimesArePast'
  BY <1>2, <1>3 DEF EnrolInv, CacheAgrees, UsedAreMembers, RowsAreIssued, TimesArePast
<1> QED  BY <1>4, <1>5, <1>6, <1>7 DEF EnrolInv

(* A look at a code, and the loss of it, teach the cache rows of the table *)
(* and nothing else.                                                       *)
LEMMA LearningInv ==
    ASSUME EnrolInv, NEW p \in Server, NEW after \in Cache,
           \A d \in Code : after[d] \in {NULL, settled[p][d], codes[d]},
           settled' = [settled EXCEPT ![p] = after],
           UNCHANGED <<codes, issued, members, undone>>
    PROVE  /\ settled' \in [Server -> Cache]
           /\ CacheAgrees' /\ RowsAreIssued'
<1>1. settled \in [Server -> Cache]
  BY DEF EnrolInv, TypeOK, Cache
<1>2. settled' \in [Server -> Cache]
  BY <1>1
<1>3. \A q \in Server, d \in Code : settled'[q][d] \in {NULL, settled[q][d], codes[d]}
  BY <1>1
<1>4. CacheAgrees'
  BY <1>3 DEF EnrolInv, CacheAgrees
<1>5. RowsAreIssued'
  BY <1>3 DEF EnrolInv, RowsAreIssued
<1> QED  BY <1>2, <1>4, <1>5

LEMMA StatusIsOne == ASSUME NEW row, NEW now PROVE StatusOf(row, now) \in {"used", "expired", "open"}
BY DEF StatusOf

LEMMA SeenIsOne ==
    ASSUME NEW known, NEW c, NEW now
    PROVE  StatusSeen(known, c, now) \in {"unknown", "used", "expired", "open"}
BY StatusIsOne DEF StatusSeen

(* The join a server is in the middle of.                                  *)
LEMMA CallType ==
    ASSUME EnrolInv, NEW p \in Server, Joining(p)
    PROVE  /\ call[p] \in [attempt : Attempt, now : 0 .. MaxClock]
           /\ call[p].attempt \in Attempt /\ CodeAt(p) \in Code
           /\ Now(p) \in 0 .. MaxClock /\ Now(p) <= latest
           /\ codes \in Cache /\ settled \in [Server -> Cache] /\ settled[p] \in Cache
<1>1. call[p] \in [attempt : Attempt, now : 0 .. MaxClock]
  BY DEF EnrolInv, TypeOK, Joining
<1>2. codes \in Cache /\ settled \in [Server -> Cache] /\ settled[p] \in Cache
  BY DEF EnrolInv, TypeOK, Cache
<1>3. Now(p) <= latest
  BY DEF EnrolInv, TimesArePast, Joining, Now
<1> QED  BY <1>1, <1>2, <1>3, EnrolAttempts DEF CodeAt, Now

LEMMA PreviewInv ==
    ASSUME EnrolInv, NEW p \in Server, NEW a \in Attempt, Preview(p, a)
    PROVE  EnrolInv'
<1> USE NullIsNone
<1> DEFINE c == CodeOf[a]
           status == StatusSeen(settled[p], c, clock)
           after == AfterLook(settled[p], c, clock)
<1>1. c \in Code /\ codes \in Cache /\ settled[p] \in Cache
  BY EnrolAttempts DEF EnrolInv, TypeOK, Cache
<1>2. after \in Cache /\ \A d \in Code : after[d] \in {NULL, settled[p][d], codes[d]}
  BY <1>1, LookLearns
<1>3. settled' = [settled EXCEPT ![p] = after]
  BY DEF Preview
<1>4. UNCHANGED <<codes, issued, members, grant, clock, latest, undone, faults>>
  BY DEF Preview, database, time
<1>5. phase' = [phase EXCEPT ![a] = status]
  BY DEF Preview
<1>6. call' = call \/ call' = [call EXCEPT ![p] = [attempt |-> a, now |-> clock]]
  BY DEF Preview
<1>7. status \in {"unknown", "used", "expired", "open"}
  BY SeenIsOne
<1> HIDE DEF after, status
<1>8. settled' \in [Server -> Cache] /\ CacheAgrees' /\ RowsAreIssued'
  BY <1>2, <1>3, <1>4, LearningInv
<1>9. call' \in [Server -> [attempt : Attempt, now : 0 .. MaxClock] \cup {NULL}]
  BY <1>6 DEF EnrolInv, TypeOK
<1>10. TypeOK'
  BY <1>4, <1>5, <1>7, <1>8, <1>9 DEF EnrolInv, TypeOK, Cache
<1>11. TokensAreBacked' /\ MembersAreInvited' /\ UsedAreMembers'
  BY <1>4 DEF EnrolInv, TokensAreBacked, MembersAreInvited, UsedAreMembers
<1>12. TimesArePast'
  <2>1. CASE call' = call
    BY <2>1, <1>4 DEF EnrolInv, TimesArePast
  <2>2. CASE call' = [call EXCEPT ![p] = [attempt |-> a, now |-> clock]]
    BY <2>2, <1>4 DEF EnrolInv, TypeOK, TimesArePast
  <2> QED  BY <1>6, <2>1, <2>2
<1> QED  BY <1>8, <1>10, <1>11, <1>12 DEF EnrolInv

(* A server that has answered is free again.                               *)
LEMMA FreedInv ==
    ASSUME EnrolInv, NEW p \in Server, call' = [call EXCEPT ![p] = NULL],
           UNCHANGED <<clock, latest>>
    PROVE  /\ call' \in [Server -> [attempt : Attempt, now : 0 .. MaxClock] \cup {NULL}]
           /\ TimesArePast'
<1>1. \A q \in Server : call'[q] \in {NULL, call[q]}
  BY DEF EnrolInv, TypeOK
<1> QED  BY <1>1 DEF EnrolInv, TypeOK, TimesArePast

LEMMA LoseInv ==
    ASSUME EnrolInv, NEW p \in Server, Lose(p)
    PROVE  EnrolInv'
<1> USE NullIsNone
<1> DEFINE after == CacheAfterLoss(p)
           verdict == Verdict(p)
<1>1. Joining(p) /\ call' = [call EXCEPT ![p] = NULL]
  BY DEF Lose
<1>2. after \in Cache /\ \A d \in Code : after[d] \in {NULL, settled[p][d], codes[d]}
  BY <1>1, CallType, LossLearns
<1>3. settled' = [settled EXCEPT ![p] = after]
  BY DEF Lose
<1>4. UNCHANGED <<codes, issued, members, grant, clock, latest, undone, faults>>
  BY DEF Lose, MembersAfterLoss, time
<1>5. phase' = [phase EXCEPT ![call[p].attempt] = verdict]
  BY DEF Lose, Answer
<1>6. verdict \in {"unknown", "used", "expired", "open"}
  BY SeenIsOne DEF Verdict
<1> HIDE DEF after, verdict
<1>7. settled' \in [Server -> Cache] /\ CacheAgrees' /\ RowsAreIssued'
  BY <1>2, <1>3, <1>4, LearningInv
<1>8. TypeOK' /\ TimesArePast'
  BY <1>1, <1>4, <1>5, <1>6, <1>7, CallType, FreedInv DEF EnrolInv, TypeOK, Cache
<1>9. TokensAreBacked' /\ MembersAreInvited' /\ UsedAreMembers'
  BY <1>4 DEF EnrolInv, TokensAreBacked, MembersAreInvited, UsedAreMembers
<1> QED  BY <1>7, <1>8, <1>9 DEF EnrolInv

(* The row that a won transaction leaves, and what is remembered of it.    *)
LEMMA SpentLearns ==
    ASSUME EnrolInv, NEW p \in Server, Joining(p), LooksOpen(p), Spendable(CodeAt(p), Now(p)),
           NEW m \in Member,
           NEW after, after = Remember(settled[p], CodeAt(p), SpentRow(p, m), Now(p))
    PROVE  /\ codes[CodeAt(p)] # NULL /\ codes[CodeAt(p)].usedBy = NULL
           /\ SpentRow(p, m) = [expires |-> codes[CodeAt(p)].expires, usedBy |-> m]
           /\ SpentRow(p, m) \in Row
           /\ after \in Cache
           /\ \A d \in Code : \/ after[d] \in {NULL, settled[p][d]}
                              \/ d = CodeAt(p) /\ after[d] = SpentRow(p, m)
<1> USE NullIsNone
<1> DEFINE c == CodeAt(p)
<1>1. c \in Code /\ codes \in Cache /\ settled[p] \in Cache
  BY CallType
<1>2. codes[c] # NULL /\ codes[c].usedBy = NULL
  BY DEF Spendable
<1>3. codes[c] \in Row /\ codes[c] = [expires |-> codes[c].expires, usedBy |-> NULL]
  BY <1>1, <1>2 DEF Cache, Row
<1>4. RowSeen(settled[p], c) \in Row /\ RowSeen(settled[p], c).expires = codes[c].expires
  BY <1>1, <1>2 DEF RowSeen, Cache, EnrolInv, CacheAgrees
<1>5. SpentRow(p, m) = [expires |-> codes[c].expires, usedBy |-> m]
  BY <1>4 DEF SpentRow, Row
<1>6. SpentRow(p, m) \in Row
  BY <1>3, <1>5 DEF Row
<1> QED  BY <1>1, <1>2, <1>5, <1>6, RememberLearns

LEMMA ClaimInv ==
    ASSUME EnrolInv, NEW p \in Server, Claim(p)
    PROVE  EnrolInv'
<1> USE NullIsNone
<1> DEFINE c == CodeAt(p)
           a == call[p].attempt
<1>1. Joining(p) /\ LooksOpen(p) /\ Spendable(c, Now(p))
  BY DEF Claim, CreateMember
<1>2. PICK m \in Member \ members :
         /\ members' = members \cup {m}
         /\ codes' = [codes EXCEPT ![c].usedBy = m]
         /\ settled' = [settled EXCEPT ![p] = Remember(settled[p], c, SpentRow(p, m), Now(p))]
         /\ grant' = [grant EXCEPT ![a] = m]
  BY DEF Claim, CreateMember
<1> DEFINE row == SpentRow(p, m)
           after == Remember(settled[p], c, row, Now(p))
<1>3. c \in Code /\ a \in Attempt /\ CodeOf[a] = c /\ codes \in Cache /\ settled \in [Server -> Cache]
  BY <1>1, CallType DEF CodeAt
<1>4. /\ codes[c] # NULL /\ codes[c].usedBy = NULL
      /\ row = [expires |-> codes[c].expires, usedBy |-> m] /\ row \in Row
      /\ after \in Cache
      /\ \A d \in Code : \/ after[d] \in {NULL, settled[p][d]}
                         \/ d = c /\ after[d] = row
  BY <1>1, SpentLearns
<1>5. settled' = [settled EXCEPT ![p] = after]
  BY <1>2
<1> HIDE DEF row, after
<1>6. codes' = [codes EXCEPT ![c] = row]
  <2>1. codes[c] \in Row
    BY <1>3, <1>4 DEF Cache
  <2>2. [codes[c] EXCEPT !.usedBy = m] = row
    BY <1>4, <2>1 DEF Row
  <2> QED  BY <1>2, <2>2
<1>7. codes'[c] = row /\ \A d \in Code \ {c} : codes'[d] = codes[d]
  BY <1>3, <1>6 DEF Cache
<1>8. UNCHANGED <<issued, clock, latest, undone, faults>>
  BY DEF Claim, CreateMember, time
<1>9. phase' = [phase EXCEPT ![a] = "token"] /\ call' = [call EXCEPT ![p] = NULL]
  BY DEF Claim, CreateMember, Answer
<1>10. grant'[a] = m /\ \A b \in Attempt \ {a} : grant'[b] = grant[b]
  BY <1>2, <1>3 DEF EnrolInv, TypeOK
<1>11. /\ settled' \in [Server -> Cache]
       /\ \A q \in Server, d \in Code : \/ settled'[q][d] \in {NULL, settled[q][d]}
                                        \/ d = c /\ settled'[q][d] = row
  BY <1>3, <1>4, <1>5
<1>12. TypeOK' /\ TimesArePast'
  <2>1. codes' \in Cache /\ members' \subseteq Member /\ grant' \in [Attempt -> Member \cup {NULL}]
    <3>1. codes' \in Cache
      BY <1>3, <1>4, <1>6 DEF Cache
    <3>2. members' \subseteq Member
      BY <1>2 DEF EnrolInv, TypeOK
    <3>3. grant' \in [Attempt -> Member \cup {NULL}]
      BY <1>2 DEF EnrolInv, TypeOK
    <3> QED  BY <3>1, <3>2, <3>3
  <2>2. phase' \in [Attempt -> {"new", "open", "token", "unknown", "expired", "used", "error"}]
    BY <1>9 DEF EnrolInv, TypeOK
  <2>3. /\ call' \in [Server -> [attempt : Attempt, now : 0 .. MaxClock] \cup {NULL}]
        /\ TimesArePast'
    BY <1>8, <1>9, FreedInv
  <2> QED  BY <1>8, <1>11, <2>1, <2>2, <2>3 DEF EnrolInv, TypeOK, Cache
<1>13. TokensAreBacked'
  <2>1. \A b \in Attempt : grant[b] # NULL => CodeOf[b] # c /\ grant[b] # m
    BY <1>2, <1>4 DEF EnrolInv, TokensAreBacked
  <2>2. \A b \in Attempt : grant[b] # NULL => CodeOf[b] \in Code
    BY EnrolAttempts
  <2> QED  BY <1>2, <1>3, <1>4, <1>7, <1>10, <2>1, <2>2 DEF EnrolInv, TokensAreBacked
<1>14. MembersAreInvited' /\ UsedAreMembers'
  <2>1. members' = members \cup {m} /\ row.usedBy = m /\ row # NULL
    BY <1>2, <1>4
  <2>2. \A n \in members : \E d \in Code \ {c} : codes[d] # NULL /\ codes[d].usedBy = n
    BY <1>3, <1>4 DEF EnrolInv, MembersAreInvited, TypeOK
  <2>3. \A d \in Code : codes[d] # NULL => codes[d].usedBy # m
    BY <1>2 DEF EnrolInv, UsedAreMembers
  <2>4. MembersAreInvited'
    BY <1>3, <1>7, <2>1, <2>2, <2>3 DEF EnrolInv, MembersAreInvited
  <2>5. UsedAreMembers'
    BY <1>3, <1>7, <2>1 DEF EnrolInv, UsedAreMembers
  <2> QED  BY <2>4, <2>5
<1>15. CacheAgrees'
  BY <1>3, <1>4, <1>7, <1>8, <1>11 DEF EnrolInv, CacheAgrees
<1>16. RowsAreIssued'
  BY <1>3, <1>4, <1>7, <1>8, <1>11 DEF EnrolInv, RowsAreIssued
<1> QED  BY <1>12, <1>13, <1>14, <1>15, <1>16 DEF EnrolInv

LEMMA StoreFailsInv ==
    ASSUME EnrolInv, NEW p \in Server, StoreFails(p)
    PROVE  EnrolInv'
<1> USE NullIsNone
<1> DEFINE c == CodeAt(p)
<1>1. /\ Joining(p) /\ call' = [call EXCEPT ![p] = NULL]
      /\ phase' = [phase EXCEPT ![call[p].attempt] = "error"]
      /\ UNCHANGED <<codes, issued, members, grant, clock, latest>>
      /\ faults < MaxFaults /\ faults' = faults + 1
  BY DEF StoreFails, Answer, Fault, database, time
<1>2. /\ settled' \in [Server -> Cache] /\ undone' \subseteq Code
      /\ CacheAgrees' /\ RowsAreIssued'
  <2>1. CASE UNCHANGED <<settled, undone>>
    <3>1. settled' \in [Server -> Cache] /\ undone' \subseteq Code
      BY <2>1 DEF EnrolInv, TypeOK, Cache
    <3>2. CacheAgrees' /\ RowsAreIssued'
      BY <1>1, <2>1 DEF EnrolInv, CacheAgrees, RowsAreIssued
    <3> QED  BY <3>1, <3>2
  <2>2. CASE ~UNCHANGED <<settled, undone>>
    <3>1. /\ LooksOpen(p) /\ Spendable(c, Now(p))
          /\ undone' = undone \cup {c}
      BY <2>2 DEF StoreFails
    <3>2. PICK m \in Member \ members :
             settled' = [settled EXCEPT ![p] = Remember(settled[p], c, SpentRow(p, m), Now(p))]
      BY <2>2 DEF StoreFails
    <3> DEFINE row == SpentRow(p, m)
               after == Remember(settled[p], c, row, Now(p))
    <3>3. /\ codes[c] # NULL /\ row.expires = codes[c].expires
          /\ after \in Cache
          /\ \A d \in Code : \/ after[d] \in {NULL, settled[p][d]}
                             \/ d = c /\ after[d] = row
      BY <1>1, <3>1, SpentLearns
    <3>4. settled' = [settled EXCEPT ![p] = after]
      BY <3>2
    <3> HIDE DEF row, after
    <3>5. settled \in [Server -> Cache] /\ c \in Code /\ undone \subseteq Code
      BY <1>1, CallType DEF EnrolInv, TypeOK
    <3>6. /\ settled' \in [Server -> Cache]
          /\ \A q \in Server, d \in Code : \/ settled'[q][d] \in {NULL, settled[q][d]}
                                           \/ d = c /\ settled'[q][d] = row
      BY <3>3, <3>4, <3>5
    <3>7. CacheAgrees'
      BY <1>1, <3>1, <3>3, <3>6 DEF EnrolInv, CacheAgrees
    <3>8. RowsAreIssued'
      BY <1>1, <3>3, <3>5, <3>6 DEF EnrolInv, RowsAreIssued
    <3> QED  BY <3>1, <3>5, <3>6, <3>7, <3>8
  <2> QED  BY <2>1, <2>2
<1>3. /\ call' \in [Server -> [attempt : Attempt, now : 0 .. MaxClock] \cup {NULL}]
      /\ TimesArePast'
  BY <1>1, FreedInv
<1>4. TypeOK'
  <2>1. phase' \in [Attempt -> {"new", "open", "token", "unknown", "expired", "used", "error"}]
    BY <1>1 DEF EnrolInv, TypeOK
  <2>2. faults' \in 0 .. MaxFaults
    BY <1>1, EnrolBounds DEF EnrolInv, TypeOK
  <2> QED  BY <1>1, <1>2, <1>3, <2>1, <2>2 DEF EnrolInv, TypeOK, Cache
<1>5. TokensAreBacked' /\ MembersAreInvited' /\ UsedAreMembers'
  BY <1>1 DEF EnrolInv, TokensAreBacked, MembersAreInvited, UsedAreMembers
<1> QED  BY <1>2, <1>3, <1>4, <1>5 DEF EnrolInv

LEMMA RestartInv ==
    ASSUME EnrolInv, NEW p \in Server, Restart(p)
    PROVE  EnrolInv'
<1> USE NullIsNone
<1> DEFINE nothing == [c \in Code |-> NULL]
<1>1. /\ call' = [call EXCEPT ![p] = NULL] /\ settled' = [settled EXCEPT ![p] = nothing]
      /\ UNCHANGED <<codes, issued, members, grant, clock, latest, undone>>
      /\ faults < MaxFaults /\ faults' = faults + 1
      /\ phase' = phase \/ phase' = [phase EXCEPT ![call[p].attempt] = "error"]
  BY DEF Restart, Answer, Fault, database, time
<1>2. settled' \in [Server -> Cache] /\ CacheAgrees' /\ RowsAreIssued'
  <2>1. nothing \in Cache /\ \A d \in Code : nothing[d] \in {NULL, settled[p][d], codes[d]}
    BY DEF Cache
  <2> QED  BY <1>1, <2>1, LearningInv
<1>3. /\ call' \in [Server -> [attempt : Attempt, now : 0 .. MaxClock] \cup {NULL}]
      /\ TimesArePast'
  BY <1>1, FreedInv
<1>4. TypeOK'
  <2>1. phase' \in [Attempt -> {"new", "open", "token", "unknown", "expired", "used", "error"}]
    BY <1>1 DEF EnrolInv, TypeOK
  <2>2. faults' \in 0 .. MaxFaults
    BY <1>1, EnrolBounds DEF EnrolInv, TypeOK
  <2> QED  BY <1>1, <1>2, <1>3, <2>1, <2>2 DEF EnrolInv, TypeOK, Cache
<1>5. TokensAreBacked' /\ MembersAreInvited' /\ UsedAreMembers'
  BY <1>1 DEF EnrolInv, TokensAreBacked, MembersAreInvited, UsedAreMembers
<1> QED  BY <1>2, <1>3, <1>4, <1>5 DEF EnrolInv

LEMMA TimeInv ==
    ASSUME EnrolInv, Tick \/ SetBack
    PROVE  EnrolInv'
<1>1. UNCHANGED <<codes, issued, members, settled, call, phase, grant, undone>>
  BY DEF Tick, SetBack, database
<1>2. /\ clock' \in 0 .. MaxClock /\ latest' \in 0 .. MaxClock /\ faults' \in 0 .. MaxFaults
      /\ latest <= latest' /\ clock' <= latest'
  BY EnrolBounds DEF EnrolInv, TypeOK, TimesArePast, Tick, SetBack, Fault
<1>3. TypeOK'
  BY <1>1, <1>2 DEF EnrolInv, TypeOK
<1>4. /\ TokensAreBacked' /\ MembersAreInvited' /\ CacheAgrees'
      /\ UsedAreMembers' /\ RowsAreIssued'
  BY <1>1 DEF EnrolInv, TokensAreBacked, MembersAreInvited, CacheAgrees, UsedAreMembers, RowsAreIssued
<1>5. TimesArePast'
  <2> SUFFICES ASSUME NEW p \in Server, call[p] # NULL PROVE call[p].now <= latest'
    BY <1>1, <1>2 DEF TimesArePast
  <2>1. call[p].now \in 0 .. MaxClock /\ call[p].now <= latest
    BY DEF EnrolInv, TypeOK, TimesArePast
  <2> QED  BY <1>2, <2>1 DEF EnrolInv, TypeOK
<1> QED  BY <1>3, <1>4, <1>5 DEF EnrolInv

LEMMA NextInv == EnrolInv /\ [Next]_vars => EnrolInv'
<1> SUFFICES ASSUME EnrolInv, [Next]_vars PROVE EnrolInv'
  OBVIOUS
<1>1. ASSUME NEW c \in Code, Invite(c) PROVE EnrolInv'
  BY <1>1, InviteInv
<1>2. CASE Prune
  BY <1>2, PruneInv
<1>3. ASSUME NEW p \in Server, NEW a \in Attempt, Preview(p, a) PROVE EnrolInv'
  BY <1>3, PreviewInv
<1>4. ASSUME NEW p \in Server, Claim(p) PROVE EnrolInv'
  BY <1>4, ClaimInv
<1>5. ASSUME NEW p \in Server, Lose(p) PROVE EnrolInv'
  BY <1>5, LoseInv
<1>6. ASSUME NEW p \in Server, StoreFails(p) PROVE EnrolInv'
  BY <1>6, StoreFailsInv
<1>7. ASSUME NEW p \in Server, Restart(p) PROVE EnrolInv'
  BY <1>7, RestartInv
<1>8. CASE Tick \/ SetBack
  BY <1>8, TimeInv
<1>9. CASE UNCHANGED vars
  BY <1>9 DEF vars, database, time, EnrolInv, TypeOK, TokensAreBacked, MembersAreInvited,
         CacheAgrees, UsedAreMembers, RowsAreIssued, TimesArePast
<1> QED  BY <1>1, <1>2, <1>3, <1>4, <1>5, <1>6, <1>7, <1>8, <1>9 DEF Next

LEMMA Invariance == Spec => []EnrolInv
BY InitInv, NextInv, PTL DEF Spec

-----------------------------------------------------------------------------
(* Every variable keeps its type.                                          *)
THEOREM TypeCorrect == Spec => []TypeOK
<1>1. EnrolInv => TypeOK
  BY DEF EnrolInv
<1> QED  BY <1>1, Invariance, PTL

(* A token handed out belongs to a member, and a code made no other.       *)
THEOREM BackedTokens == Spec => []TokensAreBacked
<1>1. EnrolInv => TokensAreBacked
  BY DEF EnrolInv
<1> QED  BY <1>1, Invariance, PTL

(* Nobody is a member without a spent code of their own.                   *)
THEOREM InvitedMembers == Spec => []MembersAreInvited
<1>1. EnrolInv => MembersAreInvited
  BY DEF EnrolInv
<1> QED  BY <1>1, Invariance, PTL

(* What a server remembers of a code is what the table says of it, unless  *)
(* a commit failed after it was remembered.                                *)
THEOREM CachesAgree == Spec => []CacheAgrees
<1>1. EnrolInv => CacheAgrees
  BY DEF EnrolInv
<1> QED  BY <1>1, Invariance, PTL

-----------------------------------------------------------------------------
(* The reason a look gives is the true one, though it may be remembered.   *)
ReasonIsTrue(c, status) ==
    /\ status = "unknown" => codes[c] = NULL
    /\ status = "expired" =>
          c \in issued /\ (codes[c] = NULL \/ codes[c].expires <= latest)
    /\ status = "used" =>
          (codes[c] # NULL /\ codes[c].usedBy # NULL) \/ c \in undone

LEMMA SeenIsTrue ==
    ASSUME EnrolInv, NEW p \in Server, NEW c \in Code, NEW now \in Nat, now <= latest,
           NEW known, known[c] \in {NULL, settled[p][c]}
    PROVE  ReasonIsTrue(c, StatusSeen(known, c, now))
<1> USE NullIsNone
<1> DEFINE row == RowSeen(known, c)
<1>1. /\ codes[c] \in Row \cup {NULL} /\ settled[p][c] \in Row \cup {NULL} /\ latest \in Nat
      /\ codes[c] # NULL => c \in issued
      /\ settled[p][c] # NULL => c \in issued
  BY EnrolBounds DEF EnrolInv, TypeOK, RowsAreIssued
<1>2. row \in {codes[c], settled[p][c]} /\ (row = NULL => codes[c] = NULL)
  BY DEF RowSeen
<1>3. row # NULL => row \in Row /\ row.expires \in Nat /\ c \in issued
  BY <1>1, <1>2, EnrolBounds DEF Row
<1>4. row # NULL => codes[c] = NULL \/ row.expires = codes[c].expires
  BY <1>2 DEF EnrolInv, CacheAgrees
<1>5. row # NULL /\ row.usedBy # NULL => (codes[c] # NULL /\ codes[c].usedBy # NULL) \/ c \in undone
  BY <1>1, <1>2 DEF EnrolInv, CacheAgrees
<1> HIDE DEF row
<1>6. StatusSeen(known, c, now) = IF row = NULL THEN "unknown"
                                  ELSE IF row.usedBy # NULL THEN "used"
                                  ELSE IF row.expires <= now THEN "expired" ELSE "open"
  BY DEF StatusSeen, StatusOf, row
<1>7. row # NULL /\ row.expires <= now => row.expires <= latest
  BY <1>1, <1>3
<1> QED  BY <1>2, <1>3, <1>4, <1>5, <1>6, <1>7 DEF ReasonIsTrue

LEMMA VerdictIsTrue ==
    ASSUME EnrolInv, NEW p \in Server, Joining(p),
           ~(LooksOpen(p) /\ Spendable(CodeAt(p), Now(p)))
    PROVE  ReasonIsTrue(CodeAt(p), Verdict(p))
<1> DEFINE c == CodeAt(p)
           forgot == Forget(settled[p], c)
<1>1. c \in Code /\ Now(p) \in Nat /\ Now(p) <= latest /\ settled[p] \in Cache
  BY CallType, EnrolBounds
<1>2. forgot[c] = NULL
  BY <1>1 DEF Forget, Cache
<1>3. CASE ~LooksOpen(p)
  BY <1>1, <1>3, SeenIsTrue DEF Verdict
<1>4. CASE LooksOpen(p)
  <2>1. StatusSeen(forgot, c, Now(p)) # "open"
    <3>1. ~Spendable(c, Now(p))
      BY <1>4
    <3>2. codes[c] # NULL => codes[c].expires \in Nat
      BY <1>1, CallType, EnrolBounds DEF Cache, Row
    <3> QED  BY <1>1, <1>2, <3>1, <3>2 DEF StatusSeen, StatusOf, RowSeen, Spendable
  <2>2. Verdict(p) = StatusSeen(forgot, c, Now(p))
    BY <1>4, <2>1 DEF Verdict
  <2> HIDE DEF forgot
  <2> QED  BY <1>1, <1>2, <2>2, SeenIsTrue
<1> QED  BY <1>3, <1>4

(* No answer of a join but a refusal's is a reason, and a refusal's is     *)
(* true: a server may answer from what it remembers.                       *)
THEOREM TrueRefusals == Spec => RefusalsAreTrue
<1> DEFINE TrueStep == \A a \in Attempt : phase'[a] # phase[a] => ReasonIsTrue(CodeOf[a], phase'[a])
<1>1. ASSUME EnrolInv, [Next]_vars PROVE [TrueStep]_vars
  <2> SUFFICES ASSUME Next PROVE TrueStep
    BY <1>1
  <2>1. phase \in [Attempt -> {"new", "open", "token", "unknown", "expired", "used", "error"}]
    BY <1>1 DEF EnrolInv, TypeOK
  <2>2. ASSUME UNCHANGED phase PROVE TrueStep
    BY <2>2
  <2>3. ASSUME NEW b \in Attempt, NEW status, phase' = [phase EXCEPT ![b] = status],
               ReasonIsTrue(CodeOf[b], status)
        PROVE  TrueStep
    BY <2>1, <2>3
  <2>4. \A c \in Code : ReasonIsTrue(c, "token") /\ ReasonIsTrue(c, "error")
    BY DEF ReasonIsTrue
  <2>5. ASSUME NEW p \in Server, NEW a \in Attempt, Preview(p, a) PROVE TrueStep
    <3> DEFINE status == StatusSeen(settled[p], CodeOf[a], clock)
    <3>1. CodeOf[a] \in Code /\ clock \in Nat /\ clock <= latest
      BY <1>1, EnrolAttempts, EnrolBounds DEF EnrolInv, TypeOK, TimesArePast
    <3>2. ReasonIsTrue(CodeOf[a], status)
      BY <1>1, <3>1, SeenIsTrue
    <3>3. phase' = [phase EXCEPT ![a] = status]
      BY <2>5 DEF Preview
    <3> QED  BY <2>3, <3>2, <3>3
  <2>6. ASSUME NEW p \in Server, Lose(p) PROVE TrueStep
    <3>1. Joining(p) /\ phase' = [phase EXCEPT ![call[p].attempt] = Verdict(p)]
      BY <2>6 DEF Lose, Answer
    <3>2. ReasonIsTrue(CodeAt(p), Verdict(p))
      BY <1>1, <2>6, VerdictIsTrue DEF Lose
    <3> QED  BY <1>1, <2>3, <3>1, <3>2, CallType DEF CodeAt
  <2>7. ASSUME NEW p \in Server, Claim(p) \/ StoreFails(p) \/ Restart(p) PROVE TrueStep
    <3>1. CASE UNCHANGED phase
      BY <2>2, <3>1
    <3>2. CASE ~UNCHANGED phase
      <4>1. /\ Joining(p)
            /\ \/ phase' = [phase EXCEPT ![call[p].attempt] = "token"]
               \/ phase' = [phase EXCEPT ![call[p].attempt] = "error"]
        BY <2>7, <3>2 DEF Claim, CreateMember, StoreFails, Restart, Answer
      <4> QED  BY <1>1, <2>3, <2>4, <4>1, CallType DEF CodeAt
    <3> QED  BY <3>1, <3>2
  <2>8. CASE (\E c \in Code : Invite(c)) \/ Prune \/ Tick \/ SetBack
    BY <2>2, <2>8 DEF Invite, Prune, Tick, SetBack
  <2> QED  BY <2>5, <2>6, <2>7, <2>8 DEF Next
<1>2. [TrueStep]_vars =>
        [\A a \in Attempt : phase'[a] # phase[a] =>
            LET row == codes[CodeOf[a]] IN
            /\ phase'[a] = "unknown" => row = NULL
            /\ phase'[a] = "expired" =>
                  CodeOf[a] \in issued /\ (row = NULL \/ row.expires <= latest)
            /\ phase'[a] = "used" =>
                  (row # NULL /\ row.usedBy # NULL) \/ CodeOf[a] \in undone]_vars
  BY DEF ReasonIsTrue
<1> HIDE DEF TrueStep
<1> QED  BY <1>1, <1>2, Invariance, PTL DEF Spec, RefusalsAreTrue

-----------------------------------------------------------------------------
(* The refinement: a code is offered when it is issued, redeemed when the  *)
(* transaction commits and withdrawn when it is pruned; every other step   *)
(* leaves the invitations as they are.                                     *)
LEMMA InitImplements == Init => Invitation!Init
BY DEF Init, Invitation!Init

LEMMA InviteOffers ==
    ASSUME EnrolInv, NEW c \in Code, Invite(c)
    PROVE  Invitation!Next
<1> USE NullIsNone
<1> DEFINE C == {d \in Code : Stale(d)}
           row == [expires |-> ExpiryOf(clock), usedBy |-> NULL]
<1>1. row \in Row /\ row.usedBy = NULL
  BY EnrolBounds DEF EnrolInv, TypeOK, Row, ExpiryOf
<1>2. codes \in Cache /\ codes[c] = NULL /\ c \notin issued /\ issued' = issued \cup {c}
  BY DEF EnrolInv, TypeOK, Cache, RowsAreIssued, Invite
<1>3. codes' = [Pruned EXCEPT ![c] = row]
  BY DEF Invite
<1> HIDE DEF row
<1>4. codes'[c] = row /\ \A d \in Code \ {c} : codes'[d] = IF d \in C THEN NULL ELSE codes[d]
  BY <1>3 DEF Pruned
<1>5. \A d \in C : d \in Code /\ d \in issued /\ d # c /\ codes[d] # NULL /\ codes[d].usedBy = NULL
  BY <1>2 DEF Stale, EnrolInv, RowsAreIssued
<1>6. \A d \in Code : codes[d] # NULL => d \in issued
  BY DEF EnrolInv, RowsAreIssued
<1> HIDE DEF C
<1>7. issued \subseteq Code
  BY DEF EnrolInv, TypeOK
<1>8. C \in SUBSET Code
  BY <1>5
<1>9. Invitation!Offer(C, c)
  BY <1>1, <1>2, <1>4, <1>5, <1>6, <1>7 DEF Invitation!Offer
<1> QED  BY <1>8, <1>9 DEF Invitation!Next

LEMMA PruneWithdraws ==
    ASSUME EnrolInv, Prune
    PROVE  Invitation!Next
<1>1. PICK C \in SUBSET Code : C = {d \in Code : Stale(d)}
  OBVIOUS
<1>2. \A d \in Code : codes'[d] = IF d \in C THEN NULL ELSE codes[d]
  BY <1>1 DEF Prune, Pruned
<1>3. \A d \in C : d \in Code /\ d \in issued /\ codes[d] # NULL /\ codes[d].usedBy = NULL
  BY <1>1 DEF Stale, EnrolInv, RowsAreIssued
<1>4. issued' = issued /\ issued \subseteq Code
  BY DEF Prune, EnrolInv, TypeOK
<1>5. Invitation!Withdraw(C)
  BY <1>2, <1>3, <1>4 DEF Invitation!Withdraw
<1> QED  BY <1>5 DEF Invitation!Next

LEMMA ClaimRedeems ==
    ASSUME EnrolInv, NEW p \in Server, Claim(p)
    PROVE  Invitation!Next
<1> USE NullIsNone
<1> DEFINE c == CodeAt(p)
<1>1. c \in Code /\ codes \in Cache
  BY CallType DEF Claim, CreateMember
<1>2. PICK m \in Member \ members : codes' = [codes EXCEPT ![c].usedBy = m]
  BY DEF Claim, CreateMember
<1>3. codes[c] # NULL /\ codes[c].usedBy = NULL
  BY DEF Claim, CreateMember, Spendable
<1>4. /\ codes'[c] # NULL /\ codes'[c].usedBy = m
      /\ \A d \in Code \ {c} : codes'[d] = codes[d]
  <2>1. codes[c] \in Row
    BY <1>1, <1>3 DEF Cache
  <2>2. [codes[c] EXCEPT !.usedBy = m] \in Row /\ [codes[c] EXCEPT !.usedBy = m].usedBy = m
    BY <2>1 DEF Row
  <2>3. codes'[c] = [codes[c] EXCEPT !.usedBy = m]
    BY <1>1, <1>2 DEF Cache
  <2>4. \A d \in Code \ {c} : codes'[d] = codes[d]
    BY <1>1, <1>2 DEF Cache
  <2> QED  BY <2>2, <2>3, <2>4
<1>5. \A d \in Code : codes[d] # NULL => codes[d].usedBy # m
  BY DEF EnrolInv, UsedAreMembers
<1>6. UNCHANGED issued
  BY DEF Claim, CreateMember
<1>7. Invitation!Redeem(c, m)
  <2> DEFINE made == [d \in Code |-> IF codes[d] = NULL THEN NULL ELSE codes[d].usedBy]
  <2>1. \A d \in Code : made[d] # m
    BY <1>5
  <2>2. made' = [made EXCEPT ![c] = m]
    BY <1>1, <1>4
  <2>3. {d \in Code : codes[d] # NULL /\ codes[d].usedBy = NULL}'
           = {d \in Code : codes[d] # NULL /\ codes[d].usedBy = NULL} \ {c}
    BY <1>1, <1>4
  <2>4. UNCHANGED {d \in issued : codes[d] = NULL}
    <3>1. \A d \in Code : codes[d] = NULL <=> codes'[d] = NULL
      BY <1>1, <1>3, <1>4
    <3>2. issued \subseteq Code
      BY DEF EnrolInv, TypeOK
    <3> QED  BY <1>6, <3>1, <3>2
  <2> QED  BY <1>1, <1>3, <2>1, <2>2, <2>3, <2>4 DEF Invitation!Redeem
<1> QED  BY <1>1, <1>7 DEF Invitation!Next

LEMMA StepImplements ==
    ASSUME EnrolInv, [Next]_vars
    PROVE  [Invitation!Next]_Invitation!vars
<1>1. ASSUME UNCHANGED <<codes, issued>> PROVE UNCHANGED Invitation!vars
  BY <1>1 DEF Invitation!vars
<1>2. ASSUME NEW c \in Code, Invite(c) PROVE Invitation!Next
  BY <1>2, InviteOffers
<1>3. CASE Prune
  BY <1>3, PruneWithdraws
<1>4. ASSUME NEW p \in Server, Claim(p) PROVE Invitation!Next
  BY <1>4, ClaimRedeems
<1>5. ASSUME NEW p \in Server, NEW a \in Attempt, Preview(p, a) PROVE UNCHANGED <<codes, issued>>
  BY <1>5 DEF Preview, database
<1>6. ASSUME NEW p \in Server, Lose(p) \/ StoreFails(p) \/ Restart(p)
      PROVE  UNCHANGED <<codes, issued>>
  BY <1>6 DEF Lose, StoreFails, Restart, database
<1>7. ASSUME Tick \/ SetBack PROVE UNCHANGED <<codes, issued>>
  BY <1>7 DEF Tick, SetBack, database
<1>8. ASSUME UNCHANGED vars PROVE UNCHANGED <<codes, issued>>
  BY <1>8 DEF vars
<1> QED  BY <1>1, <1>2, <1>3, <1>4, <1>5, <1>6, <1>7, <1>8 DEF Next

(* A code makes one member at most, and one that was withdrawn makes none. *)
THEOREM ImplementsInvitation == Spec => RedeemedOnce
<1>1. EnrolInv /\ [Next]_vars => [Invitation!Next]_Invitation!vars
  BY StepImplements
<1> QED  BY <1>1, InitImplements, Invariance, PTL DEF Spec, RedeemedOnce, Invitation!Spec

-----------------------------------------------------------------------------
(* The promise itself, of whatever keeps it.                               *)
VARIABLES open, withdrawn, redeemed
Promise == INSTANCE Invitation

OfferType == redeemed \in [Code -> Member \cup {NULL}]

LEMMA DistinctStep ==
    OfferType /\ Promise!Distinct /\ [Promise!Next]_(Promise!vars) => OfferType' /\ Promise!Distinct'
<1> SUFFICES ASSUME OfferType, Promise!Distinct, [Promise!Next]_(Promise!vars)
             PROVE  OfferType' /\ Promise!Distinct'
  OBVIOUS
<1> USE DEF OfferType, Promise!Distinct
<1>1. ASSUME NEW c \in Code, NEW m \in Member, Promise!Redeem(c, m)
      PROVE  OfferType' /\ Promise!Distinct'
  BY <1>1 DEF Promise!Redeem
<1>2. ASSUME NEW C \in SUBSET Code, NEW c \in Code, Promise!Offer(C, c)
      PROVE  OfferType' /\ Promise!Distinct'
  BY <1>2 DEF Promise!Offer
<1>3. ASSUME NEW C \in SUBSET Code, Promise!Withdraw(C)
      PROVE  OfferType' /\ Promise!Distinct'
  BY <1>3 DEF Promise!Withdraw
<1>4. CASE UNCHANGED Promise!vars
  BY <1>4 DEF Promise!vars
<1> QED  BY <1>1, <1>2, <1>3, <1>4 DEF Promise!Next

(* No two invitations make the same person, and none is open once spent.   *)
THEOREM CodesAreDistinct == Promise!Spec => [](OfferType /\ Promise!Distinct)
<1>1. Promise!Init => OfferType /\ Promise!Distinct
  BY DEF Promise!Init, OfferType, Promise!Distinct
<1> QED  BY <1>1, DistinctStep, PTL DEF Promise!Spec

(* What a code has made, it has made for good.                             *)
THEOREM MadeForGood == Promise!Spec => [][Promise!Settled]_(Promise!vars)
<1>1. OfferType /\ Promise!Distinct /\ [Promise!Next]_(Promise!vars) => [Promise!Settled]_(Promise!vars)
  BY DEF OfferType, Promise!Distinct, Promise!Next, Promise!Offer, Promise!Redeem, Promise!Withdraw, Promise!Settled,
         Promise!vars
<1> QED  BY <1>1, CodesAreDistinct, PTL DEF Promise!Spec
=============================================================================
