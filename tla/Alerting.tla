------------------------------ MODULE Alerting ------------------------------
(***************************************************************************)
(* Alerts: what happens between the commit of a batch and the webhook.     *)
(*                                                                         *)
(* A server that has stored new rows evaluates the rules of the member who *)
(* sent them: it reads the rules, sums the member's usage and everybody's, *)
(* claims a fire for each rule that is crossed and not yet fired in its    *)
(* window, and posts it.  The evaluation is synchronous, so one process    *)
(* does nothing else meanwhile; but each of its statements is its own      *)
(* transaction on the database file, where a second process (an old server *)
(* not yet gone, during a restart) may come between any two of them.       *)
(*                                                                         *)
(* Time is counted in days of the server's time zone.  A rule's metric is  *)
(* "tokens" (cost_usd is the same sum over another column) or "share".     *)
(***************************************************************************)
EXTENDS Integers, FiniteSetsExt, Functions

CONSTANTS
    Server, Member,
    Batch,        \* what exporters deliver; each stores new rows once
    Sender,       \* Sender[b]: whose rows they are
    TokensIn,     \* TokensIn[b]: the tokens that its rows hold
    DateOf,       \* DateOf[b]: the day of their timestamps
    Rule,         \* rule ids, numbered in the order rules are created
    Content,      \* what an admin may write into a rule
    NULL,
    Week,         \* days in a week
    Retries,      \* WEBHOOK_RETRIES
    MinSharers,   \* SHARE_MIN_CONTRIBUTORS
    MaxDay,       \* bound: the last day of a behaviour
    MaxFaults     \* bound: crashes and statements that throw

Day == 0 .. MaxDay
Window == {"day", "week"}

ASSUME AlertBatches ==
    /\ Sender \in [Batch -> Member] /\ IsFiniteSet(Member)
    /\ TokensIn \in [Batch -> Nat] /\ DateOf \in [Batch -> Day]
ASSUME AlertRules ==
    /\ Rule \subseteq Nat
    /\ Content \subseteq [member : Member \cup {NULL}, window : Window, enabled : BOOLEAN,
                          metric : {"tokens", "share"}, threshold : Nat,
                          hook : BOOLEAN]
ASSUME AlertBounds ==
    /\ Week \in Nat \ {0} /\ Retries \in Nat /\ MinSharers \in Nat
    /\ MaxDay \in Nat /\ MaxFaults \in Nat
ASSUME AlertNull ==
    /\ NULL \notin Content \cup Nat \cup Member
    /\ NULL \notin [status : {"pending", "skipped", "delivered", "failed"}, attempts : Nat]

VARIABLES
    stored,      \* the batches whose rows are in the requests table
    rules,       \* alert_rules: id -> content, or NULL
    created,     \* the rule ids handed out so far
    fires,       \* alert_fires: <<rule, member, window start>> -> row, or NULL
    eval,        \* the evaluation each server is in, or NULL
    sending,     \* the webhook deliveries under way
    endpoint,    \* what became of the POSTs made for each fire
    orphaned,    \* the fires whose delivery ended without a record
    stale,       \* <<rule, member>> that no evaluation has come to since
                 \* something happened that it should have been looked at for
    today,
    faults

vars == <<stored, rules, created, fires, eval, sending, endpoint, orphaned,
          stale, today, faults>>
admin == <<rules, created>>
outside == <<endpoint, orphaned, stale, today, faults>>

Key == Rule \X Member \X Day

-----------------------------------------------------------------------------
(* windowBoundsAt: the first day of the window that holds day d.           *)
StartOf(w, d) == IF w = "day" THEN d ELSE d - (d % Week)
EndOf(w, d) == StartOf(w, d) + (IF w = "day" THEN 1 ELSE Week)

InWindow(w, d) == {b \in stored : StartOf(w, d) <= DateOf[b] /\ DateOf[b] < EndOf(w, d)}

MemberTotal(m, w, d) ==
    SumFunctionOnSet(TokensIn, {b \in InWindow(w, d) : Sender[b] = m})
PeriodTotal(w, d) == SumFunctionOnSet(TokensIn, InWindow(w, d))
Contributors(w, d) == Cardinality({m \in Member : \E b \in InWindow(w, d) : Sender[b] = m})

\* mutant of Crosses: over the threshold, not at it
CrossesAbove(c, total, period, sharers) ==
    IF c.metric = "tokens" THEN total > c.threshold
    ELSE sharers >= MinSharers /\ 100 * total > c.threshold * period

(* crossesThreshold: at the threshold is over it, and a share means        *)
(* something only among several members.                                   *)
Crosses(c, total, period, sharers) ==
    IF c.metric = "tokens" THEN total >= c.threshold
    ELSE /\ sharers >= MinSharers
         /\ period > 0 /\ 100 * total >= c.threshold * period

AppliesTo(c, m) == c.enabled /\ c.member \in {NULL, m}

-----------------------------------------------------------------------------
Init ==
    /\ stored = {}
    /\ rules = [r \in Rule |-> NULL] /\ created = {}
    /\ fires = [k \in Key |-> NULL]
    /\ eval = [p \in Server |-> NULL]
    /\ sending = {}
    /\ endpoint = [k \in Key |-> [posts |-> 0, accepted |-> FALSE, refused |-> FALSE]]
    /\ orphaned = {} /\ stale = {}
    /\ today = 0
    /\ faults = 0

Idle(p) == eval[p] = NULL
Fault == faults < MaxFaults /\ faults' = faults + 1

(* The handler of POST /v1/logs: a batch that inserts rows is evaluated; a *)
(* batch that was entirely a redelivery inserts none, and nothing happens. *)
Ingest(p, b) ==
    /\ Idle(p) /\ b \notin stored
    /\ stored' = stored \cup {b}
    /\ eval' = [eval EXCEPT ![p] = [pc |-> "rules", member |-> Sender[b]]]
    /\ UNCHANGED <<admin, fires, sending, outside>>

(* evaluateAlerts takes the time and the enabled rules that apply, once.   *)
LoadRules(p) ==
    /\ ~Idle(p) /\ eval[p].pc = "rules"
    /\ LET m == eval[p].member
           todo == {r \in Rule : rules[r] # NULL /\ AppliesTo(rules[r], m)}
       IN  /\ eval' = [eval EXCEPT ![p] =
                  IF todo = {} THEN NULL
                  ELSE [pc |-> "loop", member |-> m, day |-> today,
                        todo |-> [r \in todo |-> rules[r]],
                        total |-> [w \in Window |-> NULL],
                        period |-> [w \in Window |-> NULL]]]
           /\ stale' = stale \ (Rule \X {m})
    /\ UNCHANGED <<stored, admin, fires, sending, endpoint, orphaned, today, faults>>

(* The rule an evaluation is at, its window, and the fire it is about.     *)
Head(p) == Min(DOMAIN eval[p].todo)
HeadRule(p) == eval[p].todo[Head(p)]
HeadWindow(p) == HeadRule(p).window
HeadKey(p) == <<Head(p), eval[p].member, StartOf(HeadWindow(p), eval[p].day)>>
InLoop(p) == ~Idle(p) /\ eval[p].pc = "loop"

(* An evaluation with the rule it is at behind it.                         *)
NextRule(p) ==
    LET rest == DOMAIN eval[p].todo \ {Head(p)}
    IN  IF rest = {} THEN NULL
        ELSE [eval[p] EXCEPT !.pc = "loop", !.todo = [r \in rest |-> eval[p].todo[r]]]

\* mutant of NextRead: everybody's sum is read before the member's own
PeriodFirst(p) == IF eval[p].period[HeadWindow(p)] = NULL THEN "period"
                  ELSE IF eval[p].total[HeadWindow(p)] = NULL THEN "total" ELSE "none"

(* memberWindowUsage: the member's own sum, and in a second statement      *)
(* everybody's; once per window, however many rules share it.              *)
NextRead(p) == IF eval[p].total[HeadWindow(p)] = NULL THEN "total"
               ELSE IF eval[p].period[HeadWindow(p)] = NULL THEN "period" ELSE "none"

ReadTotal(p) ==
    /\ InLoop(p) /\ NextRead(p) = "total"
    /\ eval' = [eval EXCEPT ![p].total[HeadWindow(p)] =
                   MemberTotal(eval[p].member, HeadWindow(p), eval[p].day)]
    /\ UNCHANGED <<stored, admin, fires, sending, outside>>

ReadPeriod(p) ==
    /\ InLoop(p) /\ NextRead(p) = "period"
    /\ eval' = [eval EXCEPT ![p].period[HeadWindow(p)] =
                   [tokens |-> PeriodTotal(HeadWindow(p), eval[p].day),
                    sharers |-> Contributors(HeadWindow(p), eval[p].day)]]
    /\ UNCHANGED <<stored, admin, fires, sending, outside>>

HasFiredInWindow(k) == fires[k] # NULL

(* Not crossed, or fired in this window: on to the next rule.  Else, claim. *)
Judge(p) ==
    /\ InLoop(p) /\ NextRead(p) = "none"
    /\ LET w == HeadWindow(p)
           crossed == Crosses(HeadRule(p), eval[p].total[w],
                              eval[p].period[w].tokens, eval[p].period[w].sharers)
       IN  eval' = [eval EXCEPT ![p] =
               IF crossed /\ ~HasFiredInWindow(HeadKey(p))
                 THEN [eval[p] EXCEPT !.pc = "claim"] ELSE NextRule(p)]
    /\ UNCHANGED <<stored, admin, fires, sending, outside>>

\* mutant of Claimable: no unique index behind the check
AnyClaim(k) == TRUE

(* The unique index: one fire per rule, member and window.                 *)
Claimable(k) == fires[k] = NULL

\* mutant of FirstStatus: a fire nobody posts waits for an answer
AlwaysPending(hook) == "pending"

FirstStatus(hook) == IF hook THEN "pending" ELSE "skipped"

Claiming(p) == ~Idle(p) /\ eval[p].pc = "claim"

ClaimedFire(hook) == [status |-> FirstStatus(hook), attempts |-> 0]

(* INSERT OR IGNORE into alert_fires; whoever inserts the row posts it.    *)
Claim(p) ==
    /\ Claiming(p) /\ rules[Head(p)] # NULL
    /\ LET k == HeadKey(p)
           hook == HeadRule(p).hook
       IN  IF Claimable(k)
           THEN /\ fires' = [fires EXCEPT ![k] = ClaimedFire(hook)]
                /\ sending' = IF ~hook THEN sending
                              ELSE sending \cup {[key |-> k, server |-> p,
                                                  attempt |-> 1, answer |-> "none"]}
           ELSE UNCHANGED <<fires, sending>>
    /\ eval' = [eval EXCEPT ![p] = NextRule(p)]
    /\ UNCHANGED <<stored, admin, outside>>

(* The rules that an evaluation has yet to come to, the one it is at       *)
(* included.                                                               *)
ToCome(p) == IF eval[p].pc = "rules" THEN Rule ELSE DOMAIN eval[p].todo

(* runAlertEvaluation absorbs whatever is thrown, and with it the rules    *)
(* that were left.  Webhooks already handed off go on.                     *)
GivesUp(p) ==
    /\ stale' = stale \cup (ToCome(p) \X {eval[p].member})
    /\ eval' = [eval EXCEPT ![p] = NULL]
    /\ UNCHANGED <<stored, admin, fires, sending, endpoint, orphaned, today>>

(* The rule was deleted meanwhile, and the foreign key refuses the row.    *)
ClaimThrows(p) ==
    /\ Claiming(p) /\ rules[Head(p)] = NULL
    /\ GivesUp(p)
    /\ UNCHANGED faults

(* Any statement of an evaluation may throw, the database being busy or    *)
(* its disk failing: the read of the rules, a sum, hasFiredInWindow or the *)
(* claim.                                                                  *)
EvaluationFails(p) == Fault /\ ~Idle(p) /\ GivesUp(p)

-----------------------------------------------------------------------------
(* deliverWebhook: one POST.  The far end takes it or refuses it for good; *)
(* or the answer says "not now" or does not come in time, and then the far *)
(* end may have taken it all the same.                                     *)
Post(d) ==
    /\ Idle(d.server) /\ d.answer = "none"
    /\ \E answer \in {"ok", "refused", "unsure"}, taken \in BOOLEAN :
          /\ answer = "ok" => taken
          /\ answer = "refused" => ~taken
          /\ sending' = (sending \ {d}) \cup {[d EXCEPT !.answer = answer]}
          /\ endpoint' = [endpoint EXCEPT
                 ![d.key] = [posts    |-> endpoint[d.key].posts + 1,
                             accepted |-> endpoint[d.key].accepted \/ taken,
                             refused  |-> answer = "refused"]]
    /\ UNCHANGED <<stored, admin, fires, eval, orphaned, stale, today, faults>>

\* mutant of MoreTries: one attempt too many
TriesOffByOne(d) == d.attempt <= Retries + 1

MoreTries(d) == d.attempt <= Retries

Retry(d) ==
    /\ Idle(d.server) /\ d.answer = "unsure" /\ MoreTries(d)
    /\ sending' = (sending \ {d}) \cup
                     {[d EXCEPT !.attempt = d.attempt + 1, !.answer = "none"]}
    /\ UNCHANGED <<stored, admin, fires, eval, outside>>

Final(d) == /\ Idle(d.server)
            /\ \/ d.answer \in {"ok", "refused"}
               \/ d.answer = "unsure" /\ ~MoreTries(d)

\* mutants of Outcome: retries counted for attempts; giving up not recorded
OutcomeRetries(d) == [status   |-> IF d.answer = "ok" THEN "delivered" ELSE "failed",
                      attempts |-> d.attempt - 1]
OutcomeUnsure(d) == [status   |-> CASE d.answer = "ok"      -> "delivered"
                                    [] d.answer = "refused" -> "failed"
                                    [] OTHER                -> "pending",
                     attempts |-> d.attempt]

Outcome(d) == [status   |-> IF d.answer = "ok" THEN "delivered" ELSE "failed",
               attempts |-> d.attempt]

(* recordAlertDelivery: an UPDATE by id, which finds nothing once the rule *)
(* has been deleted and its fires with it.                                 *)
Record(d) ==
    /\ Final(d)
    /\ fires' = IF fires[d.key] = NULL THEN fires
                ELSE [fires EXCEPT ![d.key] = Outcome(d)]
    /\ sending' = sending \ {d}
    /\ UNCHANGED <<stored, admin, eval, outside>>

(* recordOutcome swallows an UPDATE that throws.                           *)
RecordFails(d) ==
    /\ Fault /\ Final(d)
    /\ sending' = sending \ {d}
    /\ orphaned' = orphaned \cup {d.key}
    /\ UNCHANGED <<stored, admin, fires, eval, endpoint, stale, today>>

(* The process ends, by a crash or because nothing in a shutdown waits for *)
(* webhooks, and starts again.                                             *)
Restart(p) ==
    /\ Fault
    /\ orphaned' = orphaned \cup {d.key : d \in {e \in sending : e.server = p}}
    /\ sending' = {d \in sending : d.server # p}
    /\ stale' = IF Idle(p) THEN stale ELSE stale \cup (ToCome(p) \X {eval[p].member})
    /\ eval' = [eval EXCEPT ![p] = NULL]
    /\ UNCHANGED <<stored, admin, fires, endpoint, today>>

-----------------------------------------------------------------------------
(* The admin's routes, each served by a process that evaluates nothing.    *)

(* A threshold means something for its metric: nobody has more than 100    *)
(* percent.  Else the route answers 400.                                   *)
CheckThreshold(c) == c.threshold > 0 /\ (c.metric = "share" => c.threshold <= 100)

RuleWritten(r, c) == [rules EXCEPT ![r] = c]

CreateRule(p, r, c) ==
    /\ Idle(p) /\ CheckThreshold(c)
    /\ r \notin created /\ \A q \in Rule \ created : r <= q
    /\ created' = created \cup {r}
    /\ rules' = RuleWritten(r, c)
    /\ stale' = stale \cup ({r} \X Member)
    /\ UNCHANGED <<stored, fires, eval, sending, endpoint, orphaned, today, faults>>

PatchRule(p, r, c) ==
    /\ Idle(p) /\ CheckThreshold(c) /\ rules[r] \notin {NULL, c}
    /\ rules' = RuleWritten(r, c)
    /\ stale' = stale \cup ({r} \X Member)
    /\ UNCHANGED <<stored, created, fires, eval, sending, endpoint, orphaned, today, faults>>

FiresLeft(r) == [k \in Key |-> IF k[1] = r THEN NULL ELSE fires[k]]

(* deleteAlertRule: the rule and its fires, in one transaction.            *)
DeleteRule(p, r) ==
    /\ Idle(p) /\ rules[r] # NULL
    /\ rules' = [rules EXCEPT ![r] = NULL]
    /\ fires' = FiresLeft(r)
    /\ UNCHANGED <<stored, created, eval, sending, outside>>

(* Members who already have rows in the window of rule r that begins on    *)
(* day d: their exporter's clock was ahead, and an evaluation before that  *)
(* day did not count those rows.                                           *)
DatedAhead(r, d) ==
    IF rules[r] = NULL \/ StartOf(rules[r].window, d) # d THEN {}
    ELSE {Sender[b] : b \in InWindow(rules[r].window, d)}

Midnight ==
    /\ today < MaxDay
    /\ today' = today + 1
    /\ stale' = stale \cup {k \in Rule \X Member : k[2] \in DatedAhead(k[1], today + 1)}
    /\ UNCHANGED <<stored, admin, fires, eval, sending, endpoint, orphaned, faults>>

-----------------------------------------------------------------------------
Evaluate(p) ==
    LoadRules(p) \/ ReadTotal(p) \/ ReadPeriod(p) \/ Judge(p) \/ Claim(p) \/ ClaimThrows(p)

Next ==
    \/ \E p \in Server :
          \/ \E b \in Batch : Ingest(p, b)
          \/ LoadRules(p) \/ ReadTotal(p) \/ ReadPeriod(p) \/ Judge(p)
          \/ Claim(p) \/ ClaimThrows(p) \/ EvaluationFails(p) \/ Restart(p)
          \/ \E r \in Rule, c \in Content : CreateRule(p, r, c) \/ PatchRule(p, r, c)
          \/ \E r \in Rule : DeleteRule(p, r)
    \/ \E d \in sending : Post(d) \/ Retry(d) \/ Record(d) \/ RecordFails(d)
    \/ Midnight

(* A process in an evaluation goes on with it, and one that has a webhook  *)
(* under way gets an answer or a timeout.                                  *)
Fairness ==
    /\ \A p \in Server : WF_vars(Evaluate(p))
    /\ \A p \in Server :
          WF_vars(\E d \in sending : d.server = p /\ (Post(d) \/ Retry(d) \/ Record(d)))

Spec == Init /\ [][Next]_vars
FairSpec == Spec /\ Fairness

-----------------------------------------------------------------------------
Fire == [status : {"pending", "skipped", "delivered", "failed"}, attempts : 0 .. Retries + 1]
Sent == [key : Key, server : Server, attempt : 1 .. Retries + 1,
         answer : {"none", "ok", "refused", "unsure"}]

Usage == [tokens : Nat, sharers : Nat]

Todo == UNION {[R -> Content] : R \in (SUBSET Rule) \ {{}}}
Begun == [pc : {"rules"}, member : Member]
Looping == [pc : {"loop", "claim"}, member : Member, day : Day, todo : Todo,
            total : [Window -> Nat \cup {NULL}], period : [Window -> Usage \cup {NULL}]]
ASSUME AlertIdle == NULL \notin Begun \cup Looping

TypeOK ==
    /\ stored \subseteq Batch /\ IsFiniteSet(stored)
    /\ rules \in [Rule -> Content \cup {NULL}] /\ created \subseteq Rule
    /\ fires \in [Key -> Fire \cup {NULL}]
    /\ eval \in [Server -> Begun \cup Looping \cup {NULL}]
    /\ sending \subseteq Sent
    /\ endpoint \in [Key -> [posts : Nat, accepted : BOOLEAN, refused : BOOLEAN]]
    /\ orphaned \subseteq Key /\ stale \subseteq Rule \X Member
    /\ today \in Day /\ faults \in 0 .. MaxFaults

(* One alert per rule, member and window, posted by one process: whatever  *)
(* two servers, restarts and edits do, the far end never sees more POSTs   *)
(* for it than one delivery makes.                                         *)
NotifiedOnce == \A k \in Key : endpoint[k].posts <= Retries + 1

(* A settled fire tells the truth: delivered only if the far end said so,  *)
(* failed only after a refusal or the last attempt, and the attempts it    *)
(* shows are the POSTs made.                                               *)
OutcomeIsTrue ==
    \A k \in Key : fires[k] # NULL =>
        /\ fires[k].status = "delivered" => endpoint[k].accepted
        /\ fires[k].status = "failed" =>
              endpoint[k].refused \/ endpoint[k].posts = Retries + 1
        /\ fires[k].status \in {"delivered", "failed"} =>
              fires[k].attempts = endpoint[k].posts

Pending(k) == fires[k] # NULL /\ fires[k].status = "pending"

(* A pending fire is one that some process is delivering, or one whose     *)
(* delivery was cut short; a fire on its way out has its row already.      *)
PendingIsOwned ==
    /\ \A k \in Key : Pending(k) =>
          k \in orphaned \/ \E d \in sending : d.key = k
    /\ \A d \in sending : rules[d.key[1]] # NULL =>
          Pending(d.key)

(* The foreign key: every fire has its rule (listAlertFires joins them).   *)
FireHasRule == \A k \in Key : fires[k] # NULL => rules[k[1]] # NULL

(* What keeps a fire to one delivery.  A fire whose rule may still be      *)
(* claimed and that has no row was never posted; no two deliveries are     *)
(* about the same fire; and the POSTs made for it are those the delivery    *)
(* under way counts.                                                       *)
LiveRuleIsCreated == \A r \in Rule : rules[r] # NULL => r \in created

Open(k) == fires[k] = NULL /\ (rules[k[1]] # NULL \/ k[1] \notin created)

OpenIsUntouched ==
    \A k \in Key : Open(k) => /\ endpoint[k].posts = 0
                              /\ \A d \in sending : d.key # k

OneDelivery == \A d, e \in sending : d.key = e.key => d = e

PostsAreCounted ==
    \A d \in sending :
        endpoint[d.key].posts = IF d.answer = "none" THEN d.attempt - 1 ELSE d.attempt

AnswersAreTrue ==
    \A d \in sending : /\ d.answer = "ok" => endpoint[d.key].accepted
                       /\ d.answer = "refused" => endpoint[d.key].refused

FireInv ==
    /\ LiveRuleIsCreated /\ FireHasRule /\ OpenIsUntouched /\ OneDelivery
    /\ PostsAreCounted /\ AnswersAreTrue
    /\ NotifiedOnce /\ OutcomeIsTrue /\ PendingIsOwned

(* A share is at most 100: the member's sum is read before everybody's, so *)
(* rows that arrive in between can only make it smaller.                   *)
ShareIsAShare ==
    \A p \in Server : InLoop(p) \/ Claiming(p) =>
        \A w \in Window : eval[p].total[w] # NULL /\ eval[p].period[w] # NULL =>
            eval[p].total[w] <= eval[p].period[w].tokens

(* A member over a tokens rule in today's window has been alerted once     *)
(* nobody is evaluating them.  What excuses a rule is in `stale', until    *)
(* the member's next evaluation has loaded the rules: it was written since *)
(* the last one; its window has just begun, and the member's rows in it    *)
(* were dated ahead; or the last one ended before it came to the rule,     *)
(* because a statement of it threw or the process did.  A rule that such   *)
(* an evaluation had come to is not excused, nor is one that only another  *)
(* evaluation of the member, another edit or another midnight touched.     *)
CrossingIsAlerted ==
    \A r \in Rule, m \in Member :
        /\ rules[r] # NULL /\ <<r, m>> \notin stale
        /\ \A p \in Server : ~Idle(p) => eval[p].member # m
        =>
        LET c == rules[r] IN
        c.metric = "tokens" /\ AppliesTo(c, m)
            /\ MemberTotal(m, c.window, today) >= c.threshold
        => fires[<<r, m, StartOf(c.window, today)>>] # NULL

Crossing(r, m) ==
    /\ rules[r] # NULL /\ AppliesTo(rules[r], m)
    /\ LET w == rules[r].window
       IN  Crosses(rules[r], MemberTotal(m, w, today), PeriodTotal(w, today),
                   Contributors(w, today))

(* Storing a batch makes nobody but its sender newly cross a rule: what    *)
(* the header of server/alerts.ts concludes from everybody else's usage    *)
(* raising the denominator, and why only the sender is evaluated.          *)
OnlySenderCrosses ==
    [][\A b \in stored' \ stored : \A r \in Rule, m \in Member \ {Sender[b]} :
          Crossing(r, m)' => Crossing(r, m)]_vars

(* A fire is either delivered or recorded as failed (or its rule is        *)
(* deleted): the comment on WEBHOOK_BACKOFF_MS in shared/constants.ts.     *)
PendingResolves == \A k \in Key : Pending(k) ~> ~Pending(k)

(* The same, but for a process that ends or an outcome that cannot be      *)
(* written while the webhook is under way.                                 *)
DeliverySettles == \A k \in Key : Pending(k) ~> (~Pending(k) \/ k \in orphaned)
=============================================================================
