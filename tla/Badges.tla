------------------------------- MODULE Badges -------------------------------
(***************************************************************************)
(* Who is over an alert's threshold now, as the dashboard marks them       *)
(* (activeAlertStates of server/alerts.ts; activeByMember of the page).    *)
(* It is computed from the rows each time, and not from the fires, which   *)
(* only say who has been alerted already.                                  *)
(***************************************************************************)
EXTENDS Queries

CONSTANTS
    AlertRule,          \* the enabled rules: [id, member, metric, window, threshold]
    ServerOffset(_),    \* how far the server's zone is ahead of UTC at an instant
    WeekLong,           \* days in a week
    MidnightGap,        \* MIDNIGHT_GAP_SEARCH_MS
    MinSharers,         \* SHARE_MIN_CONTRIBUTORS
    FireKeys            \* alert_fires: <<rule id, member, window start>>

ASSUME BadgesAssumption ==
    /\ WeekLong \in Nat \ {0} /\ MidnightGap \in Nat /\ MinSharers \in Nat
    /\ \A r \in AlertRule : r.window \in {"day", "week"} /\ r.threshold \in Nat \ {0}

OffsetOf(z, t) == ServerOffset(t)
Calendar == INSTANCE Calendar WITH Offset <- OffsetOf, Day <- DayLong, Week <- WeekLong, Gap <- MidnightGap
WindowAt(window, now) == Calendar!WindowBoundsAt(window, now, NULL)

InWindow(rows, w) == {r \in rows : w.start <= r.at /\ r.at < w.end}

(* The placeholder counts in the period and is never listed.               *)
PeriodUsage(rows, w) ==
    [tokens |-> Tokens(InWindow(rows, w)), contributors |-> Cardinality({r.member : r \in InWindow(rows, w)})]
MemberWindowUsages(rows, w) ==
    {[member |-> m, tokens |-> Tokens({r \in InWindow(rows, w) : r.member = m}), period |-> PeriodUsage(rows, w)] :
        m \in {r.member : r \in InWindow(rows, w)} \ {Placeholder}}

(* A value is a fraction: a share is a hundred times the tokens over those *)
(* of the period.                                                          *)
MetricValue(metric, usage) ==
    IF metric = "share_pct"
    THEN IF usage.period.tokens > 0 THEN <<100 * usage.tokens, usage.period.tokens>> ELSE <<0, 1>>
    ELSE <<usage.tokens, 1>>

CrossesThreshold(rule, usage) ==
    /\ rule.metric = "share_pct" => usage.period.contributors >= MinSharers
    /\ MetricValue(rule.metric, usage)[1] >= rule.threshold * MetricValue(rule.metric, usage)[2]

(* Furthest over its threshold first, then by name.                        *)
MoreUrgent(a, b) ==
    LET x == a.value[1] * b.value[2] * b.rule.threshold
        y == b.value[1] * a.value[2] * a.rule.threshold
    IN  x > y \/ (x = y /\ Before(a.member, b.member))
         \/ (x = y /\ a.member = b.member /\ a.rule.id < b.rule.id)

FiredWindowKeys(since) == {k \in FireKeys : k[3] >= since}
FiresAsked(now) ==
    FiredWindowKeys(Min({WindowAt(r.window, now).start : r \in AlertRule}))

StateOf(rule, u, window, fired) ==
    [rule |-> rule, member |-> u.member, value |-> MetricValue(rule.metric, u), window |-> window,
     fired |-> <<rule.id, u.member, window.start>> \in fired]
StatesOf(rule, rows, window, fired) ==
    {StateOf(rule, u, window, fired) :
        u \in {v \in MemberWindowUsages(rows, window) :
                  rule.member \in {NULL, v.member} /\ CrossesThreshold(rule, v)}}

MostUrgent(states) == InOrder(states, {p \in states \X states : MoreUrgent(p[1], p[2])})

\* mutant of ActiveAlertStates: one window for all rules
ActiveStatesOfToday(rows, now) ==
    MostUrgent(UNION {StatesOf(rule, rows, WindowAt("day", now), FiresAsked(now)) : rule \in AlertRule})

ActiveAlertStates(rows, now) ==
    MostUrgent(UNION {StatesOf(rule, rows, WindowAt(rule.window, now), FiresAsked(now)) : rule \in AlertRule})

ActiveByMember(active) ==
    [m \in {active[i].member : i \in DOMAIN active} |->
        Kept(active, {i \in DOMAIN active : active[i].member = m})]

-----------------------------------------------------------------------------
(* The badges agree with the numbers a page shows of the same window: the  *)
(* table's row, its total as what a share is a share of; a row's first     *)
(* badge is its most urgent; and nobody over a threshold is left out, or   *)
(* marked for having no usage.  A badge says that an alert was raised if   *)
(* one was for this very window.                                           *)
BadgesAddUp(db, now) ==
    LET active == ActiveAlertStates(db.rows, now)
        Page(w) == [range |-> [from |-> w.start, to |-> w.end], filter |-> [group |-> "all", source |-> NULL]]
        Own(w, m) == Tokens({r \in Selected(db.rows, Page(w)) : r.member = m})
        All(w) == Totals(Selected(db.rows, Page(w))).tokens
        Over(rule, m, w) ==
            IF rule.metric # "share_pct" THEN Own(w, m) >= rule.threshold
            ELSE /\ Cardinality({r.member : r \in Selected(db.rows, Page(w))}) >= MinSharers
                 /\ 100 * Own(w, m) >= rule.threshold * All(w) /\ Own(w, m) > 0
    IN  /\ \A i \in DOMAIN active :
              LET a == active[i]
              IN  /\ a.window.start <= now /\ now < a.window.end
                  /\ a.member # Placeholder
                  /\ a.fired <=> <<a.rule.id, a.member, a.window.start>> \in FireKeys
                  /\ a.rule.metric = "share_pct" => a.value[1] <= 100 * a.value[2]
        /\ \A rule \in AlertRule, m \in DOMAIN db.revoked \ {Placeholder} :
              LET w == WindowAt(rule.window, now)
                  marked == {i \in DOMAIN active : active[i].rule = rule /\ active[i].member = m}
              IN  Cardinality(marked) = IF rule.member \in {NULL, m} /\ Over(rule, m, w) THEN 1 ELSE 0
        /\ LET by == ActiveByMember(active)
           IN  \A m \in DOMAIN by : \A i \in DOMAIN by[m] :
                  ~(i > 1 /\ MoreUrgent(by[m][i], by[m][1]))
=============================================================================
