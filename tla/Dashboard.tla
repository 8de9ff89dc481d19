----------------------------- MODULE Dashboard -----------------------------
(***************************************************************************)
(* A tab of the dashboard (web/src/App.tsx) over the read API of a server  *)
(* whose rows, members and admin token change under it.                    *)
(*                                                                         *)
(* Three effects read: the page (its reads go out and land together), the  *)
(* selected member, and the invites.  An effect runs again when one of the *)
(* values it depends on changes; what it had under way is then aborted.    *)
(* Writes are never aborted.                                               *)
(***************************************************************************)
EXTENDS Charts, Badges, TLC

CONSTANTS
    MaxToken,       \* admin tokens are 1..MaxToken, in force one after the other
    Row, Early,     \* the rows the tables may come to hold, and those they hold
    Joined,         \* the members, in the order they join
    OffsetHere(_),  \* how far the browser's zone is ahead of UTC at an instant
    PresetDays,     \* PRESET_DAYS: how many days back each preset begins
    DefaultPreset,  \* DEFAULT_PRESET
    CustomDays,     \* DEFAULT_CUSTOM_DAYS
    Dates,          \* what the date fields may hold: a pair of days, or NULL
    Selection,      \* what the source control may select
    Reads,          \* the reads of the page, of the six
    Horizon,        \* the instants of the run
    MaxEvents,      \* what users and the rest of the system do in a run
    MaxFaults       \* requests that do not reach the server

ASSUME DashboardAssumption ==
    /\ Reads \subseteq {"summary", "members", "timeseries", "models", "profiles", "alerts"}
    /\ Horizon \subseteq Nat /\ MaxEvents \in Nat /\ MaxFaults \in Nat /\ MaxToken \in Nat \ {0}
    /\ Early \subseteq Row /\ DefaultPreset \in DOMAIN PresetDays /\ "custom" \notin DOMAIN PresetDays
ASSUME DashboardBegins ==
    /\ Horizon # {} /\ NULL \notin Nat /\ Reads # {}
    /\ Joined \in Seq(ToSet(Joined)) /\ IsInjective(Joined)
    /\ \E n \in 0..Len(Joined) : {r.member : r \in Early} = {Joined[i] : i \in 1..n}
(* No token is the unattributed member's: their rows are all from before.  *)
ASSUME DashboardRows ==
    /\ IsFiniteSet(Early)
    /\ \A r \in Row : r.tokens \in Nat /\ r.at \in Int /\ (r.member = Placeholder => r \in Early)
    /\ \A m \in ToSet(Joined) : Hash(m) \in Nat
Names == ToSet(Joined) \cup UNION {{r.member, r.model, r.session} : r \in Row}
ASSUME DashboardNames ==
    \A x, y, z \in Names :
        /\ ~Before(x, x) /\ (x # y => Before(x, y) \/ Before(y, x))
        /\ Before(x, y) /\ Before(y, z) => Before(x, z)
ASSUME DashboardRules ==
    /\ IsFiniteSet(AlertRule) /\ 2 * MidnightGap <= DayLong
    /\ \A r, s \in AlertRule : r.id \in Int /\ (r.id = s.id => r = s)
    /\ \A r \in AlertRule, t \in Horizon :
          /\ ServerOffset(t) \in (-DayLong) .. DayLong /\ ~Calendar!MidnightRepeated(t, NULL)
          /\ Calendar!Steady(Calendar!FirstDay(r.window, t, NULL), NULL)
          /\ Calendar!Steady(Calendar!NextDay(r.window, t, NULL), NULL)

VARIABLES
    rows, revoked, admin, now,  \* the server's: requests, members, the token in force
    tab,                        \* the state of App
    session, durable,           \* sessionStorage and localStorage
    page, detail, invites,      \* what is shown: answers, or NULL
    loads,                      \* what each effect has under way
    old,                        \* a load of the page that was aborted
    write,                      \* a write under way
    events, faults

server == <<rows, revoked, admin, now>>
stores == <<session, durable>>
shown  == <<page, detail, invites>>
count  == <<events, faults>>
vars   == <<server, tab, stores, shown, loads, old, write, count>>

Effects == {"page", "member", "invites"}
\* mutant of Deps: the page does not depend on its request
DepsWithoutRequest ==
    [page |-> {"token", "reload"}, member |-> {"token", "request", "reload", "selected"},
     invites |-> {"token", "view", "reload"}]
Deps ==
    [page |-> {"token", "request", "reload"}, member |-> {"token", "request", "reload", "selected"},
     invites |-> {"token", "view", "reload"}]
ReadsOf == [page |-> Reads, member |-> {"detail"}, invites |-> {"invites"}]
Ranged == {"summary", "timeseries", "models", "profiles", "detail"}

-----------------------------------------------------------------------------
(* The range of the picker.  A day begins where its date first shows.      *)
DateHere(t) == (t + OffsetHere(t)) \div DayLong
Midnight(d) == Min({t \in (d - 1) * DayLong .. (d + 1) * DayLong : DateHere(t) >= d})

(* The days that may be asked for: no zone is more than a day from UTC     *)
(* around them, and no grid between them is cut short.                     *)
Asked ==
    {DateHere(t) - n : t \in Horizon, n \in {PresetDays[p] : p \in DOMAIN PresetDays} \cup {-1, 0, CustomDays}}
        \cup UNION {{d[1], d[2] + 1} : d \in Dates \ {NULL}}
ASSUME DashboardDays ==
    /\ CustomDays \in Nat /\ \A p \in DOMAIN PresetDays : PresetDays[p] \in Nat
    /\ \A d \in Dates \ {NULL} : {d[1], d[2]} \subseteq Int
    /\ \A t \in Horizon : OffsetHere(t) \in (-DayLong) .. DayLong
    /\ \A d \in Asked : \A t \in (d - 1) * DayLong .. (d + 1) * DayLong :
          OffsetHere(t) \in (-DayLong) .. DayLong
    /\ HourlyUnder + 2 * Hour <= MaxGrid * Hour /\ \A c, d \in Asked : d - c + 5 <= MaxGrid

LocalDaysAgo(t, n) == Midnight(DateHere(t) - n)
CustomRange(dates) ==
    IF dates = NULL THEN NULL
    ELSE LET from == Midnight(dates[1]) to == Midnight(dates[2] + 1)
         IN  IF from >= to THEN NULL ELSE [from |-> from, to |-> to]
RangeOf(t) ==
    IF t.preset = "custom" THEN CustomRange(t.dates)
    ELSE [from |-> LocalDaysAgo(t.asOf, PresetDays[t.preset]), to |-> t.asOf]

Request(t) ==
    LET range == RangeOf(t)
    IN  IF range = NULL THEN NULL
        ELSE [range |-> range, filter |-> t.selection, offset |-> OffsetHere(range.to)]

StoredToken == IF session # NULL THEN session ELSE durable

-----------------------------------------------------------------------------
(* What an effect sends out for a state of the tab, if anything.           *)
Wants(k, t) ==
    /\ t.token # NULL
    /\ k = "invites" => t.view = "members"
    /\ k # "invites" => Request(t) # NULL
    /\ k = "member" => t.selected # NULL
Wanted(k, t) ==
    IF ~Wants(k, t) THEN NULL
    ELSE [token |-> t.token, q |-> IF k = "invites" THEN NULL ELSE Request(t),
          member |-> IF k = "member" THEN t.selected ELSE NULL,
          got |-> [e \in ReadsOf[k] |-> NULL]]

(* The tab becomes t and the effects that depend on what changed run again.*)
Render(t, changed) ==
    LET again == {k \in Effects : Deps[k] \cap changed # {}}
    IN  /\ loads' = [k \in Effects |-> IF k \in again THEN Wanted(k, t) ELSE loads[k]]
        /\ old' = IF "page" \in again /\ loads["page"] # NULL
                  THEN [token |-> loads["page"].token, q |-> loads["page"].q] ELSE old
        /\ tab' = IF "page" \in again /\ Wants("page", t)
                  THEN [t EXCEPT !.loading = TRUE] ELSE t

\* mutant of ForgetToken: the durable copy stays
ForgetSession == session' = NULL /\ UNCHANGED durable
ForgetToken == session' = NULL /\ durable' = NULL
RememberToken(t, remember) == session' = t /\ durable' = IF remember THEN t ELSE NULL

Gate(t, why) == [t EXCEPT !.token = NULL, !.tokenError = why]

(* handleFailure, of a refusal: the gate, and nothing left behind it.      *)
PutGateBack(t) ==
    /\ ForgetToken
    /\ page' = NULL /\ detail' = NULL /\ invites' = NULL
    /\ Render(Gate(t, TRUE), {"token"})

Event == events < MaxEvents /\ events' = events + 1 /\ UNCHANGED faults
(* What a user does to an open tab.                                        *)
Use(t, changed) ==
    Event /\ tab.token # NULL /\ Render(t, changed) /\ UNCHANGED <<server, stores, invites, write>>

ChoosePreset(p) ==
    /\ Use([tab EXCEPT !.preset = p, !.asOf = now], {"request"})
    /\ UNCHANGED <<page, detail>>
SetDates(d) ==
    /\ tab.preset = "custom" /\ d # tab.dates
    /\ Use([tab EXCEPT !.dates = d], {"request"})
    /\ UNCHANGED <<page, detail>>
Select(s) ==
    /\ s # tab.selection
    /\ Use([tab EXCEPT !.selection = s], {"request"})
    /\ UNCHANGED <<page, detail>>
Refresh == Use([tab EXCEPT !.asOf = now], {"request", "reload"}) /\ UNCHANGED <<page, detail>>
OpenMember(m) ==
    /\ tab.selected = NULL /\ page # NULL /\ tab.view \in {"usage", "members"}
    /\ Use([tab EXCEPT !.selected = m], {"selected"})
    /\ detail' = NULL /\ UNCHANGED page
ChooseView(v) ==
    /\ v # tab.view \/ tab.selected # NULL
    /\ Use([tab EXCEPT !.view = v, !.selected = NULL], {"view", "selected"})
    /\ detail' = NULL /\ UNCHANGED page
Lock ==
    /\ Event /\ tab.token # NULL
    /\ ForgetToken
    /\ page' = NULL /\ detail' = NULL
    /\ Render(Gate(tab, FALSE), {"token"})
    /\ UNCHANGED <<server, invites, write>>
\* mutant of Submit: the gate's message stays
SubmitKeepsMessage(t, remember) ==
    /\ Event /\ tab.token = NULL
    /\ RememberToken(t, remember)
    /\ Render([tab EXCEPT !.token = t, !.error = FALSE], {"token"})
    /\ UNCHANGED <<server, shown, write>>
Submit(t, remember) ==
    /\ Event /\ tab.token = NULL
    /\ RememberToken(t, remember)
    /\ Render([tab EXCEPT !.token = t, !.tokenError = FALSE, !.error = FALSE], {"token"})
    /\ UNCHANGED <<server, shown, write>>

FreshTab(t) ==
    [token |-> t, tokenError |-> FALSE, view |-> "usage", selected |-> NULL, preset |-> DefaultPreset,
     dates |-> <<DateHere(now) - CustomDays, DateHere(now)>>, asOf |-> now, selection |-> [group |-> "all", source |-> NULL],
     loading |-> FALSE, error |-> FALSE]
(* The page is loaded: again, in a new tab, or from the link of `serve'.   *)
LoadPage(t) ==
    /\ Event
    /\ Render(FreshTab(t), {"token", "request", "view", "selected", "reload"})
    /\ page' = NULL /\ detail' = NULL /\ invites' = NULL /\ write' = NULL
    /\ UNCHANGED server
Reload == LoadPage(StoredToken) /\ UNCHANGED stores
Reopen == LoadPage(durable) /\ session' = NULL /\ UNCHANGED durable
OpenLink(t) == LoadPage(t) /\ RememberToken(t, FALSE)

-----------------------------------------------------------------------------
(* What the server answers, from its tables as they are.                   *)
Db == [rows |-> rows, revoked |-> revoked]
VerifyAdminToken(token) == token = admin
Answer(load, e) ==
    [outcome |-> IF ~VerifyAdminToken(load.token) THEN "refused"
                 ELSE IF e \in Ranged /\ ResolveRange(load.q.range, now) = NULL THEN "failed" ELSE "ok",
     by |-> load.token, q |-> load.q, member |-> load.member, db |-> Db]
Lost == [outcome |-> "failed"]
Came(got, outcome) == got # NULL /\ got.outcome = outcome

ServeRead(k, e) ==
    /\ loads[k] # NULL /\ loads[k].got[e] = NULL
    /\ loads' = [loads EXCEPT ![k].got[e] = Answer(loads[k], e)]
    /\ UNCHANGED <<server, tab, stores, shown, old, write, count>>
LoseRead(k, e) ==
    /\ faults < MaxFaults /\ faults' = faults + 1
    /\ loads[k] # NULL /\ loads[k].got[e] = NULL
    /\ loads' = [loads EXCEPT ![k].got[e] = Lost]
    /\ UNCHANGED <<server, tab, stores, shown, old, write, events>>

Complete(load) == \A e \in DOMAIN load.got : Came(load.got[e], "ok")

LandPage ==
    /\ loads["page"] # NULL /\ Complete(loads["page"])
    /\ page' = loads["page"].got
    /\ tab' = [tab EXCEPT !.error = FALSE, !.loading = FALSE]
    /\ loads' = [loads EXCEPT !["page"] = NULL]
    /\ UNCHANGED <<server, stores, detail, invites, old, write, count>>
LandMember ==
    /\ loads["member"] # NULL /\ Complete(loads["member"])
    /\ detail' = loads["member"].got["detail"]
    /\ loads' = [loads EXCEPT !["member"] = NULL]
    /\ UNCHANGED <<server, tab, stores, page, invites, old, write, count>>
LandInvites ==
    /\ loads["invites"] # NULL /\ Complete(loads["invites"])
    /\ invites' = loads["invites"].got["invites"]
    /\ loads' = [loads EXCEPT !["invites"] = NULL]
    /\ UNCHANGED <<server, tab, stores, page, detail, old, write, count>>

(* The first bad answer settles a load.  When it was the page's it stops   *)
(* loading, before anything is rendered again.                             *)
Reject(k) ==
    /\ loads[k] # NULL
    /\ \E e \in DOMAIN loads[k].got :
          LET t == IF k = "page" THEN [tab EXCEPT !.loading = FALSE] ELSE tab
          IN  \/ Came(loads[k].got[e], "refused") /\ PutGateBack(t)
              \/ /\ Came(loads[k].got[e], "failed")
                 /\ tab' = [t EXCEPT !.error = TRUE]
                 /\ loads' = [loads EXCEPT ![k] = NULL]
                 /\ UNCHANGED <<stores, shown, old>>
    /\ UNCHANGED <<server, write, count>>

\* mutants of Superseded: its answers land; its failure is handled
SupersededLands ==
    /\ old # NULL /\ old' = NULL
    /\ page' = IF old.token = admin /\ tab.token # NULL
               THEN [e \in Reads |-> [outcome |-> "ok", by |-> old.token, q |-> old.q, member |-> NULL, db |-> Db]]
               ELSE page
    /\ UNCHANGED <<server, tab, stores, detail, invites, loads, write, count>>
SupersededFails ==
    /\ old # NULL
    /\ IF old.token # admin
       THEN ForgetToken /\ tab' = Gate(tab, TRUE) /\ loads' = [k \in Effects |-> NULL]
       ELSE UNCHANGED <<stores, tab, loads>>
    /\ old' = NULL
    /\ UNCHANGED <<server, shown, write, count>>
(* What an aborted load still brings does nothing.                         *)
Superseded ==
    /\ old # NULL /\ old' = NULL
    /\ UNCHANGED <<server, tab, stores, shown, loads, write, count>>

-----------------------------------------------------------------------------
(* Writes: revoking a member, a change of a rule, an invite, and the list  *)
(* of invites that is read after one.  One is under way at a time.         *)
SendWrite(kind, m) ==
    /\ Event /\ tab.token # NULL /\ tab.selected = NULL /\ write = NULL
    /\ tab.view = IF kind = "rule" THEN "settings" ELSE "members"
    /\ kind = "revoke" <=> m # NULL
    /\ write' = [kind |-> kind, token |-> tab.token, q |-> NULL, member |-> m, got |-> NULL]
    /\ UNCHANGED <<server, tab, stores, shown, loads, old>>

ServeWrite ==
    /\ write # NULL /\ write.got = NULL
    /\ write' = [write EXCEPT !.got = Answer(write, write.kind)]
    /\ revoked' = IF write.kind = "revoke" /\ VerifyAdminToken(write.token)
                  THEN [revoked EXCEPT ![write.member] = TRUE] ELSE revoked
    /\ UNCHANGED <<rows, admin, now, tab, stores, shown, loads, old, count>>
LoseWrite ==
    /\ faults < MaxFaults /\ faults' = faults + 1
    /\ write # NULL /\ write.got = NULL
    /\ write' = [write EXCEPT !.got = Lost]
    /\ UNCHANGED <<server, tab, stores, shown, loads, old, events>>

WriteDone ==
    /\ write # NULL /\ Came(write.got, "ok")
    /\ \/ /\ write.kind \in {"revoke", "rule"}
          /\ Render(tab, {"reload"})
          /\ write' = NULL /\ UNCHANGED invites
       \/ /\ write.kind = "invite"
          /\ write' = [write EXCEPT !.kind = "relist", !.got = NULL]
          /\ UNCHANGED <<tab, invites, loads, old>>
       \/ /\ write.kind = "relist"
          /\ invites' = write.got
          /\ write' = NULL /\ UNCHANGED <<tab, loads, old>>
    /\ UNCHANGED <<server, stores, page, detail, count>>
(* Only the failure of a revocation reaches handleFailure; the forms keep  *)
(* the others to themselves.                                               *)
WriteFailed ==
    /\ write # NULL /\ write.got # NULL /\ write.got.outcome # "ok" /\ write' = NULL
    /\ IF write.kind # "revoke" THEN UNCHANGED <<tab, stores, shown, loads, old>>
       ELSE IF write.got.outcome = "refused" THEN PutGateBack(tab)
       ELSE tab' = [tab EXCEPT !.error = TRUE] /\ UNCHANGED <<stores, shown, loads, old>>
    /\ UNCHANGED <<server, count>>

-----------------------------------------------------------------------------
(* The rest of the system: rows arrive, members join, the token is         *)
(* replaced, time passes.                                                  *)
Elsewhere == Event /\ UNCHANGED <<tab, stores, shown, loads, old, write>>
Store(r) ==
    /\ Elsewhere /\ r \notin rows /\ r.at <= now /\ r.member \in DOMAIN revoked
    /\ rows' = rows \cup {r} /\ UNCHANGED <<revoked, admin, now>>
Join ==
    /\ Elsewhere /\ Cardinality(DOMAIN revoked) < Len(Joined)
    /\ revoked' = [m \in DOMAIN revoked \cup {Joined[Cardinality(DOMAIN revoked) + 1]} |->
                      m \in DOMAIN revoked /\ revoked[m]]
    /\ UNCHANGED <<rows, admin, now>>
Rotate == Elsewhere /\ admin < MaxToken /\ admin' = admin + 1 /\ UNCHANGED <<rows, revoked, now>>
Tick ==
    /\ Elsewhere /\ \E t \in Horizon : t > now
    /\ now' = Min({t \in Horizon : t > now})
    /\ UNCHANGED <<rows, revoked, admin>>

Init ==
    /\ now = Min(Horizon) /\ admin = 1
    /\ rows = Early /\ revoked = [m \in {r.member : r \in rows} |-> FALSE]
    /\ durable \in {NULL, admin} /\ session = NULL
    /\ page = NULL /\ detail = NULL /\ invites = NULL /\ old = NULL /\ write = NULL
    /\ loads = [k \in Effects |-> Wanted(k, FreshTab(durable))]
    /\ tab = [FreshTab(durable) EXCEPT !.loading = durable # NULL]
    /\ events = 0 /\ faults = 0

Member == ToSet(Joined)
Views == {"usage", "members", "settings"}
User ==
    \/ \E p \in DOMAIN PresetDays \cup {"custom"} : ChoosePreset(p)
    \/ \E d \in Dates : SetDates(d)
    \/ \E s \in Selection : Select(s)
    \/ Refresh \/ \E m \in DOMAIN revoked : OpenMember(m) \/ \E v \in Views : ChooseView(v)
    \/ Lock \/ \E t \in 1..admin, remember \in BOOLEAN : Submit(t, remember)
    \/ Reload \/ Reopen \/ \E t \in 1..admin : OpenLink(t)
    \/ \E kind \in {"revoke", "rule", "invite"}, m \in DOMAIN revoked \cup {NULL} : SendWrite(kind, m)
Progress ==
    \/ \E k \in Effects : Reject(k) \/ \E e \in ReadsOf[k] : ServeRead(k, e)
    \/ LandPage \/ LandMember \/ LandInvites
    \/ ServeWrite \/ WriteDone \/ WriteFailed
Next ==
    \/ User \/ Progress \/ Superseded
    \/ \E k \in Effects : \E e \in ReadsOf[k] : LoseRead(k, e)
    \/ LoseWrite
    \/ \E r \in Row : Store(r)
    \/ Join \/ Rotate \/ Tick

(* Requests are answered or fail, and promises settle.                     *)
Spec == Init /\ [][Next]_vars /\ WF_vars(Progress)

-----------------------------------------------------------------------------
ShownAnswer(a) ==
    /\ a.outcome = "ok" /\ a.by \in 1..admin /\ a.member \in Member \cup {NULL}
    /\ a.db.rows \subseteq rows /\ DOMAIN a.db.revoked \subseteq DOMAIN revoked

(* Types; and a message of the gate is only kept while the gate is shown.  *)
TypeOK ==
    /\ rows \subseteq Row /\ DOMAIN revoked \subseteq Member /\ admin \in 1..MaxToken /\ now \in Horizon
    /\ tab.token \in 1..admin \cup {NULL} /\ tab.view \in Views /\ tab.loading \in BOOLEAN
    /\ tab.selected \in DOMAIN revoked \cup {NULL} /\ tab.asOf \in Horizon
    /\ tab.tokenError => tab.token = NULL
    /\ {session, durable} \subseteq 1..admin \cup {NULL}
    /\ page # NULL => DOMAIN page = Reads /\ \A e \in Reads : ShownAnswer(page[e])
    /\ \A a \in {detail, invites} : a # NULL => ShownAnswer(a)
    /\ \A k \in Effects : loads[k] # NULL => DOMAIN loads[k].got = ReadsOf[k]

(* The table and the charts are of one load: the one asked for, unless the *)
(* page says that it loads, that it failed, or that there is no range.  It *)
(* is never left from another token (App.tsx, the main effect).            *)
PageIsOneLoad ==
    /\ loads["page"] # NULL => tab.loading
    /\ page # NULL => \A e \in Reads :
          /\ page[e].by = tab.token
          /\ \A f \in Reads : page[e].q = page[f].q
          /\ ~tab.loading /\ ~tab.error /\ Request(tab) # NULL => page[e].q = Request(tab)
(* What is shown of one member is of the member that is open.              *)
DetailIsOfMember == detail # NULL => detail.member = tab.selected /\ detail.by = tab.token
(* The tab's token is the one a reload would come back with: none once it  *)
(* is locked or was refused (lib/token.ts).                                *)
LockHolds == StoredToken = tab.token
TabIsTrue == PageIsOneLoad /\ DetailIsOfMember /\ LockHolds

GateDue ==
    \/ \E k \in Effects : /\ loads[k] # NULL /\ loads[k].token = tab.token
                          /\ \E e \in ReadsOf[k] : Came(loads[k].got[e], "refused")
    \/ write # NULL /\ write.kind = "revoke" /\ Came(write.got, "refused")
(* The gate comes back with a message only when the server refused the     *)
(* token in use to a read that is still wanted, or refused a revocation.   *)
GateIsDue == [][tab'.tokenError /\ ~tab.tokenError => GateDue]_tab

(* When users and servers rest, an open tab with a range ends up with what *)
(* it asked for, or says that it failed, or shows the gate.                *)
Settled ==
    \/ tab.token = NULL \/ Request(tab) = NULL
    \/ ~tab.loading /\ (tab.error \/ (page # NULL /\ \A e \in Reads : page[e].q = Request(tab)))
LoadSettles == ~Settled ~> Settled

(* The numbers of a page that lands agree, among themselves and with the   *)
(* rows they stand for, the badges of any instant included; nobody's       *)
(* colour changes as others join, and the first to join share none.        *)
Slots(p) ==
    LET db == p[CHOOSE e \in Reads : TRUE].db
        members == Kept(Joined, {i \in DOMAIN Joined : Joined[i] \in MemberList(db)})
        slots == AssignSlots(members)
    IN  [m \in ToSet(members) |-> slots[CHOOSE i \in DOMAIN members : members[i] = m]]
PageAddsUp(p) ==
    LET Chart(e) == Timeseries(p[e].db, p[e].q)
    IN  \A e \in Reads :
            /\ TableAddsUp(p[e].db, p[e].q) /\ ChartAddsUp(Chart(e))
            /\ SeriesTotal(Chart(e)) = Summary(p[e].db, p[e].q).totals.tokens
            /\ \A t \in Horizon : BadgesAddUp(p[e].db, t)
NumbersAgree ==
    [][page' # NULL /\ page' # page =>
          /\ PageAddsUp(page')
          /\ Cardinality(DOMAIN Slots(page')) <= SlotCount => IsInjective(Slots(page'))
          /\ page # NULL => \A m \in DOMAIN Slots(page) \cap DOMAIN Slots(page') :
                                Slots(page)[m] = Slots(page')[m]]_page

(* The numbers and the chart of a member's page are of one range unless it *)
(* says that it loads or failed: what App.tsx:104 asks of a page.          *)
MemberPageIsOneRange ==
    page # NULL /\ detail # NULL /\ ~tab.loading /\ ~tab.error
        => \A e \in Reads : detail.q = page[e].q
=============================================================================
