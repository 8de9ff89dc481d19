-------------------------- MODULE Dashboard_proofs --------------------------
(***************************************************************************)
(* What a tab of the dashboard shows and sends is true, for every number   *)
(* of rows, members, tokens, reads and instants, and for every zone; and   *)
(* the numbers of a page agree, however many rows they add up.             *)
(*                                                                         *)
(* First the tab, step by step; then what the queries, the charts, the     *)
(* badges, the ranges and the colours compute from any tables; at the end  *)
(* what a page was read from, and that its numbers agree.                  *)
(***************************************************************************)
EXTENDS Dashboard, Counting, FiniteSetTheorems, SequenceTheorems

Fields == {"token", "tokenError", "view", "selected", "preset", "dates", "asOf", "selection",
           "loading", "error"}

ServerOk ==
    /\ rows \subseteq Row /\ DOMAIN revoked \subseteq Member
    /\ admin \in 1..MaxToken /\ now \in Horizon
TabOk(t) ==
    /\ DOMAIN t = Fields
    /\ t.token \in 1..admin \cup {NULL} /\ t.view \in Views /\ t.loading \in BOOLEAN
    /\ t.selected \in DOMAIN revoked \cup {NULL} /\ t.asOf \in Horizon
    /\ t.tokenError => t.token = NULL
StoresOk == {session, durable} \subseteq 1..admin \cup {NULL} /\ StoredToken = tab.token

PageOk ==
    page # NULL =>
        /\ DOMAIN page = Reads
        /\ \A e \in Reads :
              /\ ShownAnswer(page[e]) /\ page[e].by = tab.token
              /\ \A f \in Reads : page[e].q = page[f].q
              /\ ~tab.loading /\ ~tab.error /\ Request(tab) # NULL => page[e].q = Request(tab)
DetailOk ==
    detail # NULL => ShownAnswer(detail) /\ detail.member = tab.selected /\ detail.by = tab.token
InvitesOk == invites # NULL => ShownAnswer(invites)

(* What has come of a load is an answer to that load, from tables that     *)
(* held no more than the server's do.                                      *)
Brought(load, a) ==
    \/ a = NULL \/ a.outcome = "failed"
    \/ /\ a.by = load.token /\ a.q = load.q /\ a.member = load.member
       /\ a.db.rows \subseteq rows /\ DOMAIN a.db.revoked \subseteq DOMAIN revoked
(* A load under way is the one the tab would send out now.                 *)
LoadOk(k, t, load) ==
    load # NULL =>
        /\ DOMAIN load = {"token", "q", "member", "got"}
        /\ load.token = t.token /\ load.token \in 1..admin
        /\ k # "invites" => Request(t) # NULL /\ load.q = Request(t)
        /\ load.member = IF k = "member" THEN t.selected ELSE NULL
        /\ DOMAIN load.got = ReadsOf[k]
        /\ \A e \in ReadsOf[k] : Brought(load, load.got[e])
LoadsOk ==
    /\ DOMAIN loads = Effects
    /\ \A k \in Effects : LoadOk(k, tab, loads[k])
    /\ loads["page"] # NULL => tab.loading
WriteOk ==
    write # NULL =>
        /\ DOMAIN write = {"kind", "token", "q", "member", "got"}
        /\ write.token \in 1..admin /\ write.member \in DOMAIN revoked \cup {NULL}
        /\ Brought(write, write.got)

TabInv ==
    ServerOk /\ TabOk(tab) /\ StoresOk /\ PageOk /\ DetailOk /\ InvitesOk /\ LoadsOk /\ WriteOk

-----------------------------------------------------------------------------
(* The request depends on the range and the selection alone.               *)
LEMMA RequestOf ==
    ASSUME NEW t, NEW u, t.preset = u.preset, t.asOf = u.asOf, t.dates = u.dates,
           t.selection = u.selection
    PROVE  Request(t) = Request(u)
<1>1. RangeOf(t) = RangeOf(u)
  BY DEF RangeOf
<1> QED  BY <1>1 DEF Request

(* A load is what the tab would send out, after the effects that depend on *)
(* what changed have run again.                                            *)
LEMMA RenderLoads ==
    ASSUME TabInv, NEW t, NEW changed, TabOk(t), UNCHANGED server, Render(t, changed),
           t.token # tab.token => "token" \in changed,
           Request(t) # Request(tab) => "request" \in changed,
           t.selected # tab.selected => "selected" \in changed,
           t.loading = tab.loading \/ "token" \in changed
    PROVE  /\ LoadsOk' /\ TabOk(tab)'
           /\ \A f \in Fields \ {"loading"} : tab'[f] = t[f]
           /\ Request(tab') = Request(t)
           /\ "token" \in changed \/ "request" \in changed => tab'.loading \/ ~Wants("page", t)
           /\ tab'.loading \/ tab'.loading = t.loading
<1> DEFINE again == {k \in Effects : Deps[k] \cap changed # {}}
<1>1. DOMAIN loads = Effects /\ DOMAIN tab = Fields /\ DOMAIN t = Fields
  BY DEF TabInv, LoadsOk, TabOk
<1>2. /\ loads' = [k \in Effects |-> IF k \in again THEN Wanted(k, t) ELSE loads[k]]
      /\ tab' = IF "page" \in again /\ Wants("page", t) THEN [t EXCEPT !.loading = TRUE] ELSE t
  BY DEF Render
<1>3. /\ DOMAIN tab' = Fields
      /\ \A f \in Fields \ {"loading"} : tab'[f] = t[f]
      /\ tab'.loading = IF "page" \in again /\ Wants("page", t) THEN TRUE ELSE t.loading
  BY <1>1, <1>2 DEF Fields
<1>4. /\ tab'.token = t.token /\ tab'.view = t.view /\ tab'.selected = t.selected
      /\ tab'.asOf = t.asOf /\ tab'.tokenError = t.tokenError
      /\ tab'.preset = t.preset /\ tab'.dates = t.dates /\ tab'.selection = t.selection
  BY <1>3 DEF Fields
<1>5. Request(tab') = Request(t)
  BY <1>4, RequestOf
<1>6. TabOk(tab)'
  BY <1>3, <1>4 DEF TabOk, server
<1>7. ASSUME NEW k \in Effects, k \notin again
      PROVE  /\ t.token = tab.token
             /\ k # "invites" => Request(t) = Request(tab)
             /\ k = "member" => t.selected = tab.selected
             /\ t.loading = tab.loading
  BY <1>7 DEF Deps, Effects
<1>8. ASSUME NEW k \in Effects
      PROVE  LoadOk(k, tab, loads[k])'
  <2>1. CASE k \in again
    <3>1. loads'[k] = Wanted(k, t)
      BY <1>2, <2>1
    <3>2. CASE ~Wants(k, t)
      BY <3>1, <3>2 DEF Wanted, LoadOk
    <3>3. CASE Wants(k, t)
      <4>1. loads'[k] = [token |-> t.token, q |-> IF k = "invites" THEN NULL ELSE Request(t),
                         member |-> IF k = "member" THEN t.selected ELSE NULL,
                         got |-> [e \in ReadsOf[k] |-> NULL]]
        BY <3>1, <3>3 DEF Wanted
      <4>2. t.token \in 1..admin' /\ (k # "invites" => Request(t) # NULL)
        BY <3>3 DEF Wants, TabOk, server
      <4> QED  BY <4>1, <4>2, <1>4, <1>5 DEF LoadOk, Brought
    <3> QED  BY <3>2, <3>3
  <2>2. CASE k \notin again
    <3>1. loads'[k] = loads[k] /\ LoadOk(k, tab, loads[k])
      BY <1>2, <2>2 DEF TabInv, LoadsOk
    <3> QED  BY <3>1, <2>2, <1>7, <1>4, <1>5 DEF LoadOk, Brought, server
  <2> QED  BY <2>1, <2>2
<1>9. loads'["page"] # NULL => tab'.loading
  <2>1. "page" \in Effects
    BY DEF Effects
  <2>2. CASE "page" \in again
    BY <2>1, <2>2, <1>2, <1>3 DEF Wanted
  <2>3. CASE "page" \notin again
    BY <2>1, <2>3, <1>2, <1>3, <1>7 DEF TabInv, LoadsOk
  <2> QED  BY <2>2, <2>3
<1>10. "token" \in changed \/ "request" \in changed => "page" \in again
  BY DEF Deps, Effects
<1> QED  BY <1>2, <1>3, <1>5, <1>6, <1>8, <1>9, <1>10 DEF LoadsOk

-----------------------------------------------------------------------------
LEMMA UseKeeps ==
    ASSUME TabInv, NEW t, NEW changed, Use(t, changed), TabOk(t),
           t.token = tab.token, t.loading = tab.loading, t.error = tab.error,
           Request(t) # Request(tab) => "request" \in changed,
           t.selected # tab.selected => "selected" \in changed /\ detail' = NULL,
           page' = page, detail' \in {NULL, detail}
    PROVE  TabInv'
<1>1. UNCHANGED <<server, stores, invites, write>> /\ Render(t, changed) /\ tab.token # NULL
  BY DEF Use
<1>2. /\ LoadsOk' /\ TabOk(tab)' /\ Request(tab') = Request(t)
      /\ \A f \in Fields \ {"loading"} : tab'[f] = t[f]
      /\ "request" \in changed => tab'.loading \/ ~Wants("page", t)
      /\ tab'.loading \/ tab'.loading = t.loading
  BY <1>1, RenderLoads
<1>3. tab'.token = t.token /\ tab'.selected = t.selected /\ tab'.error = t.error
  BY <1>2 DEF Fields
<1>4. PageOk'
  <2>1. SUFFICES ASSUME page # NULL, NEW e \in Reads, ~tab'.loading, ~tab'.error,
                        Request(tab') # NULL
                 PROVE  page[e].q = Request(tab')
    BY <1>1, <1>3 DEF TabInv, PageOk, ShownAnswer, server
  <2>2. "request" \notin changed
    BY <1>1, <1>2, <2>1 DEF Wants
  <2> QED  BY <2>1, <2>2, <1>2, <1>3 DEF TabInv, PageOk, TabOk
<1>5. DetailOk'
  BY <1>1, <1>3 DEF TabInv, DetailOk, ShownAnswer, server
<1>6. InvitesOk' /\ WriteOk' /\ ServerOk' /\ StoresOk'
  BY <1>1, <1>3 DEF TabInv, InvitesOk, WriteOk, ServerOk, StoresOk, StoredToken, ShownAnswer, Brought,
                    server, stores
<1> QED  BY <1>2, <1>4, <1>5, <1>6 DEF TabInv

(* What a user does to an open tab.                                        *)
LEMMA UserKeeps ==
    ASSUME TabInv,
           \/ \E p \in DOMAIN PresetDays \cup {"custom"} : ChoosePreset(p)
           \/ \E d \in Dates : SetDates(d)
           \/ \E s \in Selection : Select(s)
           \/ Refresh
           \/ \E m \in DOMAIN revoked : OpenMember(m)
           \/ \E v \in Views : ChooseView(v)
    PROVE  TabInv'
<1>1. TabOk(tab) /\ DOMAIN tab = Fields /\ now \in Horizon
  BY DEF TabInv, TabOk, ServerOk
<1>2. ASSUME NEW p, ChoosePreset(p) PROVE TabInv'
  <2>1. TabOk([tab EXCEPT !.preset = p, !.asOf = now])
    BY <1>1 DEF TabOk, Fields
  <2> QED  BY <1>1, <1>2, <2>1, UseKeeps DEF ChoosePreset, Fields
<1>3. ASSUME NEW d, SetDates(d) PROVE TabInv'
  <2>1. TabOk([tab EXCEPT !.dates = d])
    BY <1>1 DEF TabOk, Fields
  <2> QED  BY <1>1, <1>3, <2>1, UseKeeps DEF SetDates, Fields
<1>4. ASSUME NEW s, Select(s) PROVE TabInv'
  <2>1. TabOk([tab EXCEPT !.selection = s])
    BY <1>1 DEF TabOk, Fields
  <2> QED  BY <1>1, <1>4, <2>1, UseKeeps DEF Select, Fields
<1>5. ASSUME Refresh PROVE TabInv'
  <2>1. TabOk([tab EXCEPT !.asOf = now])
    BY <1>1 DEF TabOk, Fields
  <2> QED  BY <1>1, <1>5, <2>1, UseKeeps DEF Refresh, Fields
<1>6. ASSUME NEW m \in DOMAIN revoked, OpenMember(m) PROVE TabInv'
  <2> DEFINE t == [tab EXCEPT !.selected = m]
  <2>1. TabOk(t) /\ t.token = tab.token /\ t.loading = tab.loading /\ t.error = tab.error
    BY <1>1 DEF TabOk, Fields
  <2>2. Request(t) = Request(tab)
    <3>1. /\ t.preset = tab.preset /\ t.asOf = tab.asOf /\ t.dates = tab.dates
          /\ t.selection = tab.selection
      BY <1>1 DEF Fields
    <3> QED  BY <3>1, RequestOf
  <2> QED  BY <1>6, <2>1, <2>2, UseKeeps DEF OpenMember
<1>7. ASSUME NEW v \in Views, ChooseView(v) PROVE TabInv'
  <2> DEFINE t == [tab EXCEPT !.view = v, !.selected = NULL]
  <2>1. TabOk(t) /\ t.token = tab.token /\ t.loading = tab.loading /\ t.error = tab.error
    BY <1>1 DEF TabOk, Fields
  <2>2. Request(t) = Request(tab)
    <3>1. /\ t.preset = tab.preset /\ t.asOf = tab.asOf /\ t.dates = tab.dates
          /\ t.selection = tab.selection
      BY <1>1 DEF Fields
    <3> QED  BY <3>1, RequestOf
  <2> QED  BY <1>7, <2>1, <2>2, UseKeeps DEF ChooseView
<1> QED  BY <1>2, <1>3, <1>4, <1>5, <1>6, <1>7

(* The gate comes back: nothing is left behind it.                         *)
LEMMA GateKeeps ==
    ASSUME TabInv, NEW t, NEW why, TabOk(t), t.selected = tab.selected, Request(t) = Request(tab),
           ForgetToken, page' = NULL, detail' = NULL, invites' \in {NULL, invites},
           Render(Gate(t, why), {"token"}), UNCHANGED server, write' \in {NULL, write}
    PROVE  TabInv'
<1> DEFINE g == Gate(t, why)
<1>1. /\ TabOk(g) /\ g.token = NULL /\ g.selected = t.selected
      /\ g.preset = t.preset /\ g.asOf = t.asOf /\ g.dates = t.dates /\ g.selection = t.selection
  BY DEF TabOk, Fields, Gate
<1>2. Request(g) = Request(tab)
  BY <1>1, RequestOf
<1>3. /\ LoadsOk' /\ TabOk(tab)' /\ \A f \in Fields \ {"loading"} : tab'[f] = g[f]
  BY <1>1, <1>2, RenderLoads
<1>4. tab'.token = NULL
  BY <1>1, <1>3 DEF Fields
<1>5. PageOk' /\ DetailOk'
  BY DEF PageOk, DetailOk
<1>6. InvitesOk' /\ WriteOk' /\ ServerOk'
  BY DEF TabInv, InvitesOk, WriteOk, ServerOk, ShownAnswer, Brought, server
<1>7. StoresOk'
  BY <1>4 DEF ForgetToken, StoresOk, StoredToken
<1> QED  BY <1>3, <1>5, <1>6, <1>7 DEF TabInv

LEMMA LockKeeps == TabInv /\ Lock => TabInv'
BY GateKeeps DEF Lock, TabInv

LEMMA SubmitKeeps ==
    ASSUME TabInv, NEW token \in 1..admin, NEW remember \in BOOLEAN, Submit(token, remember)
    PROVE  TabInv'
<1> DEFINE t == [tab EXCEPT !.token = token, !.tokenError = FALSE, !.error = FALSE]
<1>1. Render(t, {"token"}) /\ UNCHANGED <<server, shown, write>> /\ tab.token = NULL
  BY DEF Submit
<1>2. /\ TabOk(t) /\ t.token = token /\ t.selected = tab.selected /\ t.preset = tab.preset
      /\ t.asOf = tab.asOf /\ t.dates = tab.dates /\ t.selection = tab.selection
  BY DEF TabInv, TabOk, Fields
<1>3. Request(t) = Request(tab)
  BY <1>2, RequestOf
<1>4. LoadsOk' /\ TabOk(tab)' /\ \A f \in Fields \ {"loading"} : tab'[f] = t[f]
  BY <1>1, <1>2, <1>3, RenderLoads
<1>5. tab'.token = token
  BY <1>2, <1>4 DEF Fields
<1>6. NULL \notin 1..admin
  BY DashboardBegins, DashboardAssumption DEF TabInv, ServerOk
<1>7. (page # NULL => Reads = {}) /\ detail = NULL
  BY <1>1, <1>6 DEF TabInv, PageOk, DetailOk, ShownAnswer
<1>8. PageOk' /\ DetailOk'
  BY <1>1, <1>7 DEF TabInv, PageOk, DetailOk, shown
<1>9. InvitesOk' /\ WriteOk' /\ ServerOk'
  BY <1>1 DEF TabInv, InvitesOk, WriteOk, ServerOk, ShownAnswer, Brought, server, shown
<1>10. StoresOk'
  BY <1>1, <1>5 DEF Submit, RememberToken, StoresOk, StoredToken, server
<1> QED  BY <1>4, <1>8, <1>9, <1>10 DEF TabInv

LEMMA FreshTabOk ==
    ASSUME TabInv, NEW token \in 1..admin \cup {NULL}
    PROVE  TabOk(FreshTab(token)) /\ FreshTab(token).token = token /\ FreshTab(token).selected = NULL
BY DashboardAssumption DEF TabInv, ServerOk, TabOk, FreshTab, Fields, Views

LEMMA LoadPageKeeps ==
    ASSUME TabInv, Reload \/ Reopen \/ \E token \in 1..admin : OpenLink(token)
    PROVE  TabInv'
<1>1. PICK token \in 1..admin \cup {NULL} :
          LoadPage(token) /\ {session, durable}' \subseteq 1..admin \cup {NULL} /\ StoredToken' = token
  <2>1. {session, durable} \subseteq 1..admin \cup {NULL}
    BY DEF TabInv, StoresOk
  <2>2. CASE Reload
    <3>1. LoadPage(StoredToken) /\ session' = session /\ durable' = durable
      BY <2>2 DEF Reload, stores
    <3>2. StoredToken \in 1..admin \cup {NULL} /\ StoredToken' = StoredToken
      BY <2>1, <3>1 DEF StoredToken
    <3> QED  BY <2>1, <3>1, <3>2
  <2>3. CASE Reopen
    <3>1. LoadPage(durable) /\ session' = NULL /\ durable' = durable
      BY <2>3 DEF Reopen
    <3>2. StoredToken' = durable
      BY <3>1 DEF StoredToken
    <3> QED  BY <2>1, <3>1, <3>2
  <2>4. ASSUME NEW t \in 1..admin, OpenLink(t)
        PROVE  LoadPage(t) /\ {session, durable}' \subseteq 1..admin \cup {NULL} /\ StoredToken' = t
    BY <2>4 DEF OpenLink, RememberToken, StoredToken
  <2> QED  BY <2>2, <2>3, <2>4
<1> DEFINE t == FreshTab(token)
           all == {"token", "request", "view", "selected", "reload"}
<1>2. /\ Render(t, all) /\ page' = NULL /\ detail' = NULL /\ invites' = NULL /\ write' = NULL
      /\ UNCHANGED server
  BY <1>1 DEF LoadPage
<1>3. TabOk(t) /\ t.token = token
  BY FreshTabOk
<1> HIDE DEF t
<1>4. LoadsOk' /\ TabOk(tab)' /\ \A f \in Fields \ {"loading"} : tab'[f] = t[f]
  BY <1>2, <1>3, RenderLoads
<1>5. StoresOk'
  BY <1>1, <1>2, <1>3, <1>4 DEF StoresOk, Fields, server
<1>6. ServerOk' /\ PageOk' /\ DetailOk' /\ InvitesOk' /\ WriteOk'
  BY <1>2 DEF TabInv, ServerOk, PageOk, DetailOk, InvitesOk, WriteOk, server
<1> QED  BY <1>4, <1>5, <1>6 DEF TabInv

-----------------------------------------------------------------------------
(* What comes of a read is of the load that asked for it.                  *)
LEMMA AnswerIsBrought ==
    ASSUME NEW load, NEW e
    PROVE  Brought(load, Answer(load, e)) /\ Brought(load, Lost)
BY DEF Brought, Answer, Lost, Db

LEMMA ReadKeeps ==
    ASSUME TabInv, NEW k \in Effects, NEW e \in ReadsOf[k], NEW a, Brought(loads[k], a),
           loads[k] # NULL, loads' = [loads EXCEPT ![k].got[e] = a],
           UNCHANGED <<server, tab, stores, shown, write>>
    PROVE  TabInv'
<1>1. DOMAIN loads = Effects /\ LoadOk(k, tab, loads[k])
  BY DEF TabInv, LoadsOk
<1>2. DOMAIN loads[k] = {"token", "q", "member", "got"} /\ DOMAIN loads[k].got = ReadsOf[k]
  BY <1>1 DEF LoadOk
<1>3. /\ DOMAIN loads' = Effects /\ \A j \in Effects \ {k} : loads'[j] = loads[j]
      /\ loads'[k] = [loads[k] EXCEPT !.got[e] = a]
  BY <1>1
<1>4. /\ DOMAIN loads'[k] = {"token", "q", "member", "got"} /\ loads'[k].token = loads[k].token
      /\ loads'[k].q = loads[k].q /\ loads'[k].member = loads[k].member
      /\ DOMAIN loads'[k].got = ReadsOf[k]
      /\ \A f \in ReadsOf[k] : loads'[k].got[f] = IF f = e THEN a ELSE loads[k].got[f]
  BY <1>2, <1>3
<1>5. LoadOk(k, tab, loads[k])'
  BY <1>1, <1>4 DEF LoadOk, Brought, server
<1>6. ASSUME NEW j \in Effects \ {k} PROVE LoadOk(j, tab, loads[j])'
  <2>1. loads'[j] = loads[j] /\ LoadOk(j, tab, loads[j])
    BY <1>3 DEF TabInv, LoadsOk
  <2> QED  BY <2>1 DEF LoadOk, Brought, server
<1>7. LoadsOk'
  <2>1. loads["page"] # NULL => tab.loading
    BY DEF TabInv, LoadsOk
  <2>2. loads'["page"] # NULL => loads["page"] # NULL
    BY <1>3 DEF Effects
  <2> QED  BY <1>3, <1>5, <1>6, <2>1, <2>2 DEF LoadsOk
<1>8. /\ ServerOk' /\ TabOk(tab)' /\ StoresOk' /\ PageOk' /\ DetailOk' /\ InvitesOk' /\ WriteOk'
  BY DEF TabInv, ServerOk, TabOk, StoresOk, StoredToken, PageOk, DetailOk, InvitesOk, WriteOk, ShownAnswer,
         Brought, server, stores, shown
<1> QED  BY <1>7, <1>8 DEF TabInv

LEMMA ReadsKeep ==
    ASSUME TabInv, NEW k \in Effects, NEW e \in ReadsOf[k], ServeRead(k, e) \/ LoseRead(k, e)
    PROVE  TabInv'
<1>1. CASE ServeRead(k, e)
  BY <1>1, AnswerIsBrought, ReadKeeps DEF ServeRead
<1>2. CASE LoseRead(k, e)
  BY <1>2, AnswerIsBrought, ReadKeeps DEF LoseRead
<1> QED  BY <1>1, <1>2

(* A complete load may be shown.                                           *)
LEMMA CompleteIsShown ==
    ASSUME TabInv, NEW k \in Effects, loads[k] # NULL, Complete(loads[k])
    PROVE  /\ DOMAIN loads[k].got = ReadsOf[k]
           /\ \A e \in ReadsOf[k] :
                 /\ ShownAnswer(loads[k].got[e]) /\ loads[k].got[e].by = tab.token
                 /\ loads[k].got[e].q = loads[k].q /\ loads[k].got[e].member = loads[k].member
           /\ k # "invites" => loads[k].q = Request(tab)
           /\ k = "member" => loads[k].member = tab.selected
<1>1. LoadOk(k, tab, loads[k])
  BY DEF TabInv, LoadsOk
<1>2. loads[k].member \in Member \cup {NULL}
  BY <1>1 DEF LoadOk, TabInv, TabOk, ServerOk
<1> QED  BY <1>1, <1>2 DEF LoadOk, Complete, Came, Brought, ShownAnswer

(* A load that is over leaves the others as they are.                      *)
LEMMA LoadIsOver ==
    ASSUME TabInv, NEW k \in Effects, loads' = [loads EXCEPT ![k] = NULL], UNCHANGED server,
           \A f \in Fields \ {"loading", "error"} : tab'[f] = tab[f],
           k = "page" \/ tab'.loading = tab.loading
    PROVE  LoadsOk' /\ Request(tab') = Request(tab)
<1>1. /\ tab'.token = tab.token /\ tab'.selected = tab.selected /\ tab'.preset = tab.preset
      /\ tab'.asOf = tab.asOf /\ tab'.dates = tab.dates /\ tab'.selection = tab.selection
  BY DEF Fields
<1>2. Request(tab') = Request(tab)
  BY <1>1, RequestOf
<1>3. ASSUME NEW j \in Effects PROVE LoadOk(j, tab, loads[j])'
  <2>1. LoadOk(j, tab, loads[j]) /\ loads'[j] = IF j = k THEN NULL ELSE loads[j]
    BY DEF TabInv, LoadsOk
  <2> QED  BY <2>1, <1>1, <1>2 DEF LoadOk, Brought, server
<1>4. loads'["page"] # NULL => tab'.loading
  BY DEF TabInv, LoadsOk, Effects
<1> QED  BY <1>2, <1>3, <1>4 DEF TabInv, LoadsOk

LEMMA LandingsKeep ==
    ASSUME TabInv, LandPage \/ LandMember \/ LandInvites
    PROVE  TabInv'
<1>1. CASE LandPage
  <2>1. /\ page' = loads["page"].got /\ tab' = [tab EXCEPT !.error = FALSE, !.loading = FALSE]
        /\ loads["page"] # NULL /\ Complete(loads["page"]) /\ "page" \in Effects
        /\ loads' = [loads EXCEPT !["page"] = NULL]
        /\ UNCHANGED <<server, stores, detail, invites, write>>
    BY <1>1 DEF LandPage, Effects
  <2>2. /\ DOMAIN tab' = Fields /\ \A f \in Fields \ {"loading", "error"} : tab'[f] = tab[f]
        /\ tab'.loading = FALSE
    BY <2>1 DEF TabInv, TabOk, Fields
  <2>3. LoadsOk' /\ Request(tab') = Request(tab)
    BY <2>1, <2>2, LoadIsOver
  <2>4. /\ tab'.token = tab.token /\ tab'.selected = tab.selected /\ tab'.view = tab.view
        /\ tab'.asOf = tab.asOf /\ tab'.tokenError = tab.tokenError
    BY <2>2 DEF Fields
  <2>5. PageOk'
    BY <2>1, <2>3, <2>4, CompleteIsShown DEF PageOk, ShownAnswer, ReadsOf, server
  <2>6. /\ ServerOk' /\ TabOk(tab)' /\ StoresOk' /\ DetailOk' /\ InvitesOk' /\ WriteOk'
    BY <2>1, <2>2, <2>4 DEF TabInv, ServerOk, TabOk, StoresOk, StoredToken, DetailOk, InvitesOk, WriteOk,
           ShownAnswer, Brought, server, stores
  <2> QED  BY <2>3, <2>5, <2>6 DEF TabInv
<1>2. CASE LandMember
  <2>1. /\ detail' = loads["member"].got["detail"] /\ loads["member"] # NULL
        /\ Complete(loads["member"]) /\ "member" \in Effects
        /\ loads' = [loads EXCEPT !["member"] = NULL]
        /\ UNCHANGED <<server, tab, stores, page, invites, write>>
    BY <1>2 DEF LandMember, Effects
  <2>2. LoadsOk'
    BY <2>1, LoadIsOver
  <2>3. DetailOk'
    <3>1. "detail" \in ReadsOf["member"]
      BY DEF ReadsOf
    <3> QED  BY <2>1, <3>1, CompleteIsShown DEF DetailOk, ShownAnswer, server
  <2>4. /\ ServerOk' /\ TabOk(tab)' /\ StoresOk' /\ PageOk' /\ InvitesOk' /\ WriteOk'
    BY <2>1 DEF TabInv, ServerOk, TabOk, StoresOk, StoredToken, PageOk, InvitesOk, WriteOk,
           ShownAnswer, Brought, server, stores
  <2> QED  BY <2>2, <2>3, <2>4 DEF TabInv
<1>3. CASE LandInvites
  <2>1. /\ invites' = loads["invites"].got["invites"] /\ loads["invites"] # NULL
        /\ Complete(loads["invites"]) /\ "invites" \in Effects
        /\ loads' = [loads EXCEPT !["invites"] = NULL]
        /\ UNCHANGED <<server, tab, stores, page, detail, write>>
    BY <1>3 DEF LandInvites, Effects
  <2>2. LoadsOk'
    BY <2>1, LoadIsOver
  <2>3. InvitesOk'
    <3>1. "invites" \in ReadsOf["invites"]
      BY DEF ReadsOf
    <3> QED  BY <2>1, <3>1, CompleteIsShown DEF InvitesOk, ShownAnswer, server
  <2>4. /\ ServerOk' /\ TabOk(tab)' /\ StoresOk' /\ PageOk' /\ DetailOk' /\ WriteOk'
    BY <2>1 DEF TabInv, ServerOk, TabOk, StoresOk, StoredToken, PageOk, DetailOk, WriteOk,
           ShownAnswer, Brought, server, stores
  <2> QED  BY <2>2, <2>3, <2>4 DEF TabInv
<1> QED  BY <1>1, <1>2, <1>3

(* A failure leaves what is shown beside its message.                      *)
LEMMA FailureKeeps ==
    ASSUME TabInv, tab' = [tab EXCEPT !.loading = FALSE, !.error = TRUE] \/ tab' = [tab EXCEPT !.error = TRUE],
           UNCHANGED <<server, stores, shown>>, LoadsOk', Request(tab') = Request(tab),
           write' \in {NULL, write}
    PROVE  TabInv'
<1>1. /\ DOMAIN tab' = Fields /\ tab'.error = TRUE /\ tab'.loading \in BOOLEAN
      /\ tab'.token = tab.token /\ tab'.selected = tab.selected /\ tab'.view = tab.view
      /\ tab'.asOf = tab.asOf /\ tab'.tokenError = tab.tokenError
  BY DEF TabInv, TabOk, Fields
<1>2. PageOk'
  BY <1>1 DEF TabInv, PageOk, ShownAnswer, server, shown
<1>3. ServerOk' /\ TabOk(tab)' /\ StoresOk' /\ DetailOk' /\ InvitesOk' /\ WriteOk'
  BY <1>1 DEF TabInv, ServerOk, TabOk, StoresOk, StoredToken, DetailOk, InvitesOk, WriteOk,
         ShownAnswer, Brought, server, stores, shown
<1> QED  BY <1>2, <1>3 DEF TabInv

LEMMA RejectKeeps ==
    ASSUME TabInv, NEW k \in Effects, Reject(k)
    PROVE  TabInv'
<1> DEFINE t == IF k = "page" THEN [tab EXCEPT !.loading = FALSE] ELSE tab
<1>1. /\ UNCHANGED <<server, write>>
      /\ \/ PutGateBack(t)
         \/ /\ tab' = [t EXCEPT !.error = TRUE] /\ loads' = [loads EXCEPT ![k] = NULL]
            /\ UNCHANGED <<stores, shown>>
  BY DEF Reject
<1>2. DOMAIN tab = Fields
  BY DEF TabInv, TabOk
<1>3. CASE PutGateBack(t)
  <2>1. /\ TabOk(t) /\ t.selected = tab.selected /\ t.preset = tab.preset /\ t.asOf = tab.asOf
        /\ t.dates = tab.dates /\ t.selection = tab.selection
    BY <1>2 DEF TabInv, TabOk, Fields
  <2>2. Request(t) = Request(tab)
    BY <2>1, RequestOf
  <2> QED  BY <1>1, <1>3, <2>1, <2>2, GateKeeps DEF PutGateBack
<1>4. CASE /\ tab' = [t EXCEPT !.error = TRUE] /\ loads' = [loads EXCEPT ![k] = NULL]
           /\ UNCHANGED <<stores, shown>>
  <2>1. /\ \A f \in Fields \ {"loading", "error"} : tab'[f] = tab[f]
        /\ k = "page" \/ tab'.loading = tab.loading
    BY <1>2, <1>4 DEF Fields
  <2>2. tab' = [tab EXCEPT !.loading = FALSE, !.error = TRUE] \/ tab' = [tab EXCEPT !.error = TRUE]
    BY <1>4
  <2>3. LoadsOk' /\ Request(tab') = Request(tab)
    BY <1>1, <1>4, <2>1, LoadIsOver
  <2> QED  BY <1>1, <1>4, <2>2, <2>3, FailureKeeps
<1> QED  BY <1>1, <1>3, <1>4

-----------------------------------------------------------------------------
(* A step that leaves all but the write alone.                             *)
LEMMA WriteAlone ==
    ASSUME TabInv, WriteOk', UNCHANGED <<rows, admin, now, tab, stores, shown, loads>>,
           DOMAIN revoked' = DOMAIN revoked
    PROVE  TabInv'
<1>1. LoadsOk'
  BY DEF TabInv, LoadsOk, LoadOk, Brought
<1> QED  BY <1>1 DEF TabInv, ServerOk, TabOk, StoresOk, StoredToken, PageOk, DetailOk, InvitesOk, ShownAnswer,
                    stores, shown

LEMMA SendKeeps ==
    ASSUME TabInv, NEW kind, NEW m \in DOMAIN revoked \cup {NULL}, SendWrite(kind, m)
    PROVE  TabInv'
<1>1. WriteOk'
  BY DEF SendWrite, TabInv, TabOk, WriteOk, Brought, server
<1> QED  BY <1>1, WriteAlone DEF SendWrite, server

LEMMA AnswersKeep ==
    ASSUME TabInv, ServeWrite \/ LoseWrite
    PROVE  TabInv'
<1>1. PICK a : /\ Brought(write, a) /\ write # NULL /\ write' = [write EXCEPT !.got = a]
               /\ DOMAIN revoked' = DOMAIN revoked
               /\ UNCHANGED <<rows, admin, now, tab, stores, shown, loads>>
  <2>1. CASE ServeWrite
    BY <2>1, AnswerIsBrought DEF ServeWrite
  <2>2. CASE LoseWrite
    BY <2>2, AnswerIsBrought DEF LoseWrite, server
  <2> QED  BY <2>1, <2>2
<1>2. WriteOk'
  BY <1>1 DEF TabInv, WriteOk, Brought
<1> QED  BY <1>1, <1>2, WriteAlone

LEMMA WriteDoneKeeps == TabInv /\ WriteDone => TabInv'
<1> SUFFICES ASSUME TabInv, WriteDone PROVE TabInv'
  OBVIOUS
<1>1. /\ write # NULL /\ Came(write.got, "ok") /\ WriteOk
      /\ UNCHANGED <<server, stores, page, detail>>
  BY DEF WriteDone, TabInv
<1>2. CASE Render(tab, {"reload"}) /\ write' = NULL /\ UNCHANGED invites
  <2>1. /\ LoadsOk' /\ TabOk(tab)' /\ Request(tab') = Request(tab)
        /\ \A f \in Fields \ {"loading"} : tab'[f] = tab[f]
        /\ tab'.loading \/ tab'.loading = tab.loading
    BY <1>1, <1>2, RenderLoads DEF TabInv
  <2>2. tab'.token = tab.token /\ tab'.selected = tab.selected /\ tab'.error = tab.error
    BY <2>1 DEF Fields
  <2>3. PageOk' /\ DetailOk'
    BY <1>1, <2>1, <2>2 DEF TabInv, PageOk, DetailOk, ShownAnswer, server
  <2>4. ServerOk' /\ StoresOk' /\ InvitesOk' /\ WriteOk'
    BY <1>1, <1>2, <2>2 DEF TabInv, ServerOk, StoresOk, StoredToken, InvitesOk, WriteOk, ShownAnswer,
                            server, stores
  <2> QED  BY <2>1, <2>3, <2>4 DEF TabInv
<1>3. CASE /\ write' = [write EXCEPT !.kind = "relist", !.got = NULL]
           /\ UNCHANGED <<tab, invites, loads, old>>
  <2>1. WriteOk'
    BY <1>1, <1>3 DEF WriteOk, Brought, server
  <2> QED  BY <1>1, <1>3, <2>1, WriteAlone DEF server, shown
<1>4. CASE invites' = write.got /\ write' = NULL /\ UNCHANGED <<tab, loads, old>>
  <2>1. InvitesOk'
    BY <1>1, <1>4 DEF TabInv, ServerOk, WriteOk, InvitesOk, ShownAnswer, Brought, Came, server
  <2>2. LoadsOk'
    BY <1>1, <1>4 DEF TabInv, LoadsOk, LoadOk, Brought, server
  <2>3. ServerOk' /\ TabOk(tab)' /\ StoresOk' /\ PageOk' /\ DetailOk' /\ WriteOk'
    BY <1>1, <1>4 DEF TabInv, ServerOk, TabOk, StoresOk, StoredToken, PageOk, DetailOk, WriteOk,
           ShownAnswer, server, stores
  <2> QED  BY <2>1, <2>2, <2>3 DEF TabInv
<1> QED  BY <1>2, <1>3, <1>4 DEF WriteDone

LEMMA WriteFailedKeeps == TabInv /\ WriteFailed => TabInv'
<1> SUFFICES ASSUME TabInv, WriteFailed PROVE TabInv'
  OBVIOUS
<1>1. write' = NULL /\ UNCHANGED server
  BY DEF WriteFailed
<1>2. CASE UNCHANGED <<tab, stores, shown, loads, old>>
  <2>1. WriteOk'
    BY <1>1 DEF WriteOk
  <2> QED  BY <1>1, <1>2, <2>1, WriteAlone DEF server
<1>3. CASE PutGateBack(tab)
  BY <1>1, <1>3, GateKeeps DEF PutGateBack, TabInv
<1>4. CASE tab' = [tab EXCEPT !.error = TRUE] /\ UNCHANGED <<stores, shown, loads, old>>
  <2>1. /\ tab'.token = tab.token /\ tab'.selected = tab.selected /\ tab'.loading = tab.loading
        /\ tab'.preset = tab.preset /\ tab'.asOf = tab.asOf /\ tab'.dates = tab.dates
        /\ tab'.selection = tab.selection
    BY <1>4 DEF TabInv, TabOk, Fields
  <2>2. Request(tab') = Request(tab)
    BY <2>1, RequestOf
  <2>3. LoadsOk'
    BY <1>1, <1>4, <2>1, <2>2 DEF TabInv, LoadsOk, LoadOk, Brought, server
  <2> QED  BY <1>1, <1>4, <2>2, <2>3, FailureKeeps
<1> QED  BY <1>2, <1>3, <1>4 DEF WriteFailed

-----------------------------------------------------------------------------
(* The server may learn of more without the tab knowing.                   *)
LEMMA ElsewhereKeeps ==
    ASSUME TabInv, ServerOk', UNCHANGED <<tab, stores, shown, loads, write>>,
           rows \subseteq rows', DOMAIN revoked \subseteq DOMAIN revoked', admin <= admin'
    PROVE  TabInv'
<1>1. 1..admin \subseteq 1..admin' /\ admin \in Nat /\ admin' \in Nat
  BY DashboardAssumption DEF TabInv, ServerOk
<1>2. \A a : ShownAnswer(a) => /\ a.outcome = "ok" /\ a.by \in 1..admin' /\ a.member \in Member \cup {NULL}
                              /\ a.db.rows \subseteq rows' /\ DOMAIN a.db.revoked \subseteq DOMAIN revoked'
  BY <1>1 DEF ShownAnswer
<1>3. PageOk'
  <2>1. page' = page /\ tab' = tab
    BY DEF shown
  <2>2. SUFFICES ASSUME page # NULL, NEW e \in Reads PROVE ShownAnswer(page[e])'
    BY <2>1 DEF TabInv, PageOk
  <2>3. ShownAnswer(page[e])
    BY <2>2 DEF TabInv, PageOk
  <2> QED  BY <1>2, <2>1, <2>3 DEF ShownAnswer
<1>4. DetailOk' /\ InvitesOk'
  BY <1>2 DEF TabInv, DetailOk, InvitesOk, ShownAnswer, shown
<1>5. TabOk(tab)' /\ StoresOk'
  BY <1>1 DEF TabInv, TabOk, StoresOk, StoredToken, stores
<1>6. \A l, a : Brought(l, a) =>
         \/ a = NULL \/ a.outcome = "failed"
         \/ /\ a.by = l.token /\ a.q = l.q /\ a.member = l.member
            /\ a.db.rows \subseteq rows' /\ DOMAIN a.db.revoked \subseteq DOMAIN revoked'
  BY DEF Brought
<1>7. WriteOk'
  BY <1>1, <1>6 DEF TabInv, WriteOk, Brought
<1>8. LoadsOk'
  <2>1. SUFFICES ASSUME NEW k \in Effects PROVE LoadOk(k, tab, loads[k])'
    BY DEF TabInv, LoadsOk
  <2>2. LoadOk(k, tab, loads[k])
    BY DEF TabInv, LoadsOk
  <2> QED  BY <2>2, <1>1, <1>6 DEF LoadOk, Brought
<1> QED  BY <1>3, <1>4, <1>5, <1>7, <1>8 DEF TabInv

LEMMA MembersAreFinite == IsFiniteSet(Member)
<1>1. Len(Joined) \in Nat /\ DOMAIN Joined = 1..Len(Joined)
  BY DashboardBegins
<1>2. IsFiniteSet(1..Len(Joined))
  BY <1>1, FS_Interval
<1>3. Member = {Joined[i] : i \in 1..Len(Joined)}
  BY <1>1 DEF Member, ToSet
<1>4. Joined \in [1..Len(Joined) -> Member]
  BY <1>1, <1>3, DashboardBegins DEF Member
<1>5. Joined \in Surjection(1..Len(Joined), Member)
  BY <1>3, <1>4 DEF Surjection
<1> QED  BY <1>2, <1>5, FS_Surjection

(* The next instant, and the first one, are instants.                      *)
LEMMA LeastIsOne ==
    ASSUME NEW S, S \subseteq Horizon, S # {}
    PROVE  Min(S) \in S
<1>1. S \subseteq Nat
  BY DashboardAssumption
<1> QED  BY <1>1, NatHasLeast DEF Min

LEMMA ServerKeeps ==
    ASSUME TabInv, (\E r \in Row : Store(r)) \/ Join \/ Rotate \/ Tick
    PROVE  TabInv'
<1>1. UNCHANGED <<tab, stores, shown, loads, write>>
  BY DEF Store, Join, Rotate, Tick, Elsewhere
<1>2. admin \in Nat /\ ServerOk
  BY DashboardAssumption DEF TabInv, ServerOk
<1>3. ASSUME NEW r \in Row, Store(r) PROVE TabInv'
  BY <1>1, <1>2, <1>3, ElsewhereKeeps DEF Store, ServerOk
<1>4. CASE Join
  <2> DEFINE m == Joined[Cardinality(DOMAIN revoked) + 1]
  <2>1. m \in Member
    <3>1. Cardinality(DOMAIN revoked) \in Nat
      BY <1>2, MembersAreFinite, FS_Subset, FS_CardinalityType DEF ServerOk
    <3>2. Cardinality(DOMAIN revoked) + 1 \in 1..Len(Joined) /\ DOMAIN Joined = 1..Len(Joined)
      BY <1>4, <3>1, DashboardBegins DEF Join
    <3> QED  BY <3>2 DEF Member, ToSet
  <2>2. DOMAIN revoked' = DOMAIN revoked \cup {m}
    BY <1>4 DEF Join
  <2>3. rows' = rows /\ admin' = admin /\ now' = now
    BY <1>4 DEF Join
  <2>4. ServerOk'
    BY <1>1, <1>2, <2>1, <2>2, <2>3 DEF ServerOk
  <2> QED  BY <1>1, <1>2, <2>2, <2>3, <2>4, ElsewhereKeeps
<1>5. CASE Rotate
  BY <1>1, <1>2, <1>5, ElsewhereKeeps, DashboardAssumption DEF Rotate, ServerOk
<1>6. CASE Tick
  <2>1. now' \in Horizon /\ UNCHANGED <<rows, revoked, admin>>
    BY <1>6, LeastIsOne DEF Tick
  <2> QED  BY <1>1, <1>2, <2>1, ElsewhereKeeps DEF ServerOk
<1> QED  BY <1>3, <1>4, <1>5, <1>6

LEMMA TabBegins == Init => TabInv
<1> SUFFICES ASSUME Init PROVE TabInv
  OBVIOUS
<1>1. ServerOk
  <2>1. Min(Horizon) \in Horizon
    BY LeastIsOne, DashboardBegins
  <2>2. now \in Horizon /\ admin \in 1..MaxToken
    BY <2>1, DashboardAssumption DEF Init
  <2>3. rows \subseteq Row
    BY DashboardAssumption DEF Init
  <2>4. DOMAIN revoked = {r.member : r \in Early}
    BY DEF Init
  <2>5. {r.member : r \in Early} \subseteq Member
    BY DashboardBegins DEF Member
  <2> QED  BY <2>2, <2>3, <2>4, <2>5 DEF ServerOk
<1>2. durable \in 1..admin \cup {NULL} /\ session = NULL
  BY DEF Init
<1> DEFINE t == FreshTab(durable)
<1>3. TabOk(t) /\ t.token = durable /\ t.loading = FALSE /\ tab = [t EXCEPT !.loading = durable # NULL]
  BY <1>1, <1>2, DashboardAssumption DEF Init, ServerOk, TabOk, FreshTab, Fields, Views
<1> HIDE DEF t
<1>4. /\ tab.token = t.token /\ tab.selected = t.selected /\ tab.preset = t.preset
      /\ tab.asOf = t.asOf /\ tab.dates = t.dates /\ tab.selection = t.selection
      /\ tab.view = t.view /\ tab.tokenError = t.tokenError /\ tab.loading = (durable # NULL)
      /\ DOMAIN tab = Fields
  BY <1>3 DEF TabOk, Fields
<1>5. Request(tab) = Request(t)
  BY <1>4, RequestOf
<1>6. loads = [k \in Effects |-> Wanted(k, t)]
  BY DEF Init, t
<1>7. ASSUME NEW k \in Effects PROVE LoadOk(k, tab, loads[k])
  <2>1. CASE ~Wants(k, t)
    BY <1>6, <2>1 DEF Wanted, LoadOk
  <2>2. CASE Wants(k, t)
    <3>1. loads[k] = [token |-> t.token, q |-> IF k = "invites" THEN NULL ELSE Request(t),
                      member |-> IF k = "member" THEN t.selected ELSE NULL,
                      got |-> [e \in ReadsOf[k] |-> NULL]]
      BY <1>6, <2>2 DEF Wanted
    <3>2. t.token \in 1..admin /\ (k # "invites" => Request(t) # NULL)
      BY <2>2, <1>3 DEF Wants, TabOk
    <3> QED  BY <3>1, <3>2, <1>4, <1>5 DEF LoadOk, Brought
  <2> QED  BY <2>1, <2>2
<1>8. loads["page"] # NULL => tab.loading
  <2>1. loads["page"] = Wanted("page", t)
    BY <1>6 DEF Effects
  <2> QED  BY <2>1, <1>3, <1>4 DEF Wanted, Wants
<1>9. LoadsOk
  BY <1>6, <1>7, <1>8 DEF LoadsOk
<1>10. TabOk(tab) /\ StoresOk
  BY <1>2, <1>3, <1>4 DEF TabOk, StoresOk, StoredToken
<1>11. PageOk /\ DetailOk /\ InvitesOk /\ WriteOk
  BY DEF Init, PageOk, DetailOk, InvitesOk, WriteOk
<1> QED  BY <1>1, <1>9, <1>10, <1>11 DEF TabInv

LEMMA TabStep == TabInv /\ [Next]_vars => TabInv'
<1> SUFFICES ASSUME TabInv, [Next]_vars PROVE TabInv'
  OBVIOUS
<1>1. CASE User
  BY <1>1, UserKeeps, LockKeeps, SubmitKeeps, LoadPageKeeps, SendKeeps DEF User
<1>2. CASE Progress
  BY <1>2, RejectKeeps, ReadsKeep, LandingsKeep, AnswersKeep, WriteDoneKeeps, WriteFailedKeeps DEF Progress
<1>3. CASE Superseded
  BY <1>3, ElsewhereKeeps DEF Superseded, TabInv, ServerOk, server
<1>4. CASE \E k \in Effects : \E e \in ReadsOf[k] : LoseRead(k, e)
  BY <1>4, ReadsKeep
<1>5. CASE LoseWrite
  BY <1>5, AnswersKeep
<1>6. CASE (\E r \in Row : Store(r)) \/ Join \/ Rotate \/ Tick
  BY <1>6, ServerKeeps
<1>7. CASE UNCHANGED vars
  BY <1>7, ElsewhereKeeps DEF vars, TabInv, ServerOk, server
<1> QED  BY <1>1, <1>2, <1>3, <1>4, <1>5, <1>6, <1>7 DEF Next

LEMMA TabHolds == Spec => []TabInv
BY TabBegins, TabStep, PTL DEF Spec

-----------------------------------------------------------------------------
(* Types; and the gate's message goes when a token is submitted.           *)
THEOREM TypeCorrect == Spec => []TypeOK
<1>1. TabInv => TypeOK
  BY DEF TabInv, ServerOk, TabOk, StoresOk, PageOk, DetailOk, InvitesOk, LoadsOk, LoadOk, TypeOK
<1> QED  BY <1>1, TabHolds, PTL

(* The page shows the answers of one load, by the token in use and of the  *)
(* range on display unless it says otherwise; a member's numbers are of    *)
(* the member that is open; and the token in use is the one in storage     *)
(* (the effects of App.tsx and lib/token.ts).                              *)
THEOREM TabsAreTrue == Spec => []TabIsTrue
<1>1. TabInv => TabIsTrue
  BY DEF TabInv, PageOk, DetailOk, StoresOk, LoadsOk, TabIsTrue, PageIsOneLoad, DetailIsOfMember, LockHolds
<1> QED  BY <1>1, TabHolds, PTL

-----------------------------------------------------------------------------
(* A step that renders what it was given brings no message back.           *)
LEMMA RenderSaysNothing ==
    ASSUME NEW t, NEW changed, Render(t, changed), DOMAIN t = Fields
    PROVE  tab'.tokenError = t.tokenError
<1>1. tab' = [t EXCEPT !.loading = TRUE] \/ tab' = t
  BY DEF Render
<1> QED  BY <1>1 DEF Fields

(* The user never brings the message of a refusal.                         *)
LEMMA UserSaysNothing ==
    ASSUME TabInv, User, tab'.tokenError
    PROVE  tab.tokenError
<1>1. DOMAIN tab = Fields
  BY DEF TabInv, TabOk
<1>2. ASSUME NEW t, NEW changed, Use(t, changed), DOMAIN t = Fields, t.tokenError = tab.tokenError
      PROVE  tab.tokenError
  BY <1>2, RenderSaysNothing DEF Use
<1>3. ASSUME NEW p, ChoosePreset(p) PROVE tab.tokenError
  BY <1>1, <1>2, <1>3 DEF ChoosePreset, Fields
<1>4. ASSUME NEW d, SetDates(d) PROVE tab.tokenError
  BY <1>1, <1>2, <1>4 DEF SetDates, Fields
<1>5. ASSUME NEW s, Select(s) PROVE tab.tokenError
  BY <1>1, <1>2, <1>5 DEF Select, Fields
<1>6. CASE Refresh
  BY <1>1, <1>2, <1>6 DEF Refresh, Fields
<1>7. ASSUME NEW m, OpenMember(m) PROVE tab.tokenError
  BY <1>1, <1>2, <1>7 DEF OpenMember, Fields
<1>8. ASSUME NEW v, ChooseView(v) PROVE tab.tokenError
  BY <1>1, <1>2, <1>8 DEF ChooseView, Fields
<1>9. ~Lock
  <2>1. DOMAIN Gate(tab, FALSE) = Fields /\ Gate(tab, FALSE).tokenError = FALSE
    BY <1>1 DEF Gate, Fields
  <2> QED  BY <2>1, RenderSaysNothing DEF Lock
<1>10. ASSUME NEW token, NEW remember, Submit(token, remember) PROVE FALSE
  <2> DEFINE t == [tab EXCEPT !.token = token, !.tokenError = FALSE, !.error = FALSE]
  <2>1. DOMAIN t = Fields /\ t.tokenError = FALSE
    BY <1>1 DEF Fields
  <2> QED  BY <1>10, <2>1, RenderSaysNothing DEF Submit
<1>11. ASSUME NEW token, LoadPage(token) PROVE FALSE
  <2>1. DOMAIN FreshTab(token) = Fields /\ FreshTab(token).tokenError = FALSE
    BY DEF FreshTab, Fields
  <2> QED  BY <1>11, <2>1, RenderSaysNothing DEF LoadPage
<1>12. ASSUME NEW kind, NEW m, SendWrite(kind, m) PROVE tab.tokenError
  BY <1>12 DEF SendWrite
<1> QED  BY <1>3, <1>4, <1>5, <1>6, <1>7, <1>8, <1>9, <1>10, <1>11, <1>12 DEF User, Reload, Reopen, OpenLink

(* What settles brings it only for a refusal.                              *)
LEMMA ProgressIsDue ==
    ASSUME TabInv, Progress, tab'.tokenError, ~tab.tokenError
    PROVE  GateDue
<1>1. DOMAIN tab = Fields
  BY DEF TabInv, TabOk
<1>2. ASSUME NEW k \in Effects, Reject(k) PROVE GateDue
  <2> DEFINE t == IF k = "page" THEN [tab EXCEPT !.loading = FALSE] ELSE tab
  <2>1. t.tokenError = tab.tokenError /\ [t EXCEPT !.error = TRUE].tokenError = tab.tokenError
    BY <1>1 DEF Fields
  <2>2. PICK e \in DOMAIN loads[k].got :
           Came(loads[k].got[e], "refused") \/ tab' = [t EXCEPT !.error = TRUE]
    BY <1>2 DEF Reject
  <2>3. loads[k] # NULL /\ LoadOk(k, tab, loads[k])
    BY <1>2 DEF Reject, TabInv, LoadsOk
  <2> QED  BY <2>1, <2>2, <2>3 DEF GateDue, LoadOk
<1>3. ASSUME NEW k \in Effects, NEW e, ServeRead(k, e) PROVE FALSE
  BY <1>3 DEF ServeRead
<1>4. ~LandPage
  BY <1>1 DEF LandPage, Fields
<1>5. ~LandMember /\ ~LandInvites /\ ~ServeWrite
  BY DEF LandMember, LandInvites, ServeWrite
<1>6. ~WriteDone
  BY <1>1, RenderSaysNothing DEF WriteDone
<1>7. CASE WriteFailed
  <2>1. [tab EXCEPT !.error = TRUE].tokenError = tab.tokenError
    BY <1>1 DEF Fields
  <2> QED  BY <1>7, <2>1 DEF WriteFailed, GateDue, Came
<1> QED  BY <1>2, <1>3, <1>4, <1>5, <1>6, <1>7 DEF Progress

(* The gate comes back with a message only after a refusal: of a read that *)
(* the effect still wants, by the token in use, or of a revocation (App's  *)
(* handleFailure).                                                         *)
THEOREM GatesAreDue == Spec => GateIsDue
<1>1. TabInv /\ [Next]_vars => [tab'.tokenError /\ ~tab.tokenError => GateDue]_tab
  <2> SUFFICES ASSUME TabInv, Next, tab'.tokenError, ~tab.tokenError PROVE GateDue
    BY DEF vars
  <2>1. ~(\E k \in Effects : \E e \in ReadsOf[k] : LoseRead(k, e)) /\ ~Superseded /\ ~LoseWrite
    BY DEF LoseRead, Superseded, LoseWrite
  <2>2. ~((\E r \in Row : Store(r)) \/ Join \/ Rotate \/ Tick)
    BY DEF Store, Join, Rotate, Tick, Elsewhere
  <2> QED  BY <2>1, <2>2, UserSaysNothing, ProgressIsDue DEF Next
<1> QED  BY <1>1, TabHolds, PTL DEF Spec, GateIsDue

-----------------------------------------------------------------------------
(***************************************************************************)
(* Lists of all the members of a set, and sums.                            *)
(***************************************************************************)
(* q has every member of S once.                                           *)
Lists(q, S) ==
    /\ q \in Seq(S) /\ Len(q) \in Nat /\ DOMAIN q = 1..Len(q)
    /\ \A x \in S : \E i \in DOMAIN q : q[i] = x
    /\ \A i, j \in DOMAIN q : q[i] = q[j] => i = j

LEMMA ListOfAll ==
    ASSUME NEW q, NEW S, Lists(q, S)
    PROVE  /\ ToSet(q) = S /\ \A i \in DOMAIN q : q[i] \in S
           /\ S = {q[i] : i \in DOMAIN q} /\ IsFiniteSet(DOMAIN q) /\ Cardinality(DOMAIN q) = Len(q)
<1>1. /\ Len(q) \in Nat /\ DOMAIN q = 1..Len(q) /\ q \in Seq(S)
      /\ \A x \in S : \E i \in DOMAIN q : q[i] = x
  BY DEF Lists
<1>2. \A i \in DOMAIN q : q[i] \in S
  BY <1>1, ElementOfSeq
<1>3. ToSet(q) = {q[i] : i \in DOMAIN q}
  BY DEF ToSet
<1>4. IsFiniteSet(DOMAIN q) /\ Cardinality(DOMAIN q) = Len(q)
  <2>1. PICK n \in Nat : n = Len(q)
    BY <1>1
  <2>2. IsFiniteSet(1..n) /\ Cardinality(1..n) = IF 1 > n THEN 0 ELSE n - 1 + 1
    BY FS_Interval
  <2> QED  BY <1>1, <2>1, <2>2
<1> QED  BY <1>1, <1>2, <1>3, <1>4

LEMMA FunctionIsSeq ==
    ASSUME NEW S, NEW n \in Nat, NEW f \in [1..n -> S]
    PROVE  f \in Seq(S) /\ <<>> \o f = f /\ Len(f) = n
<1>1. f \in Seq(S)
  BY SeqDef
<1>2. Len(f) \in Nat /\ DOMAIN f = 1..Len(f)
  BY <1>1, LenProperties
<1>3. Len(f) = n
  BY <1>2
<1> QED  BY <1>1, <1>3, ConcatEmptySeq

LEMMA InOrderLists ==
    ASSUME NEW S, NEW R, IsFiniteSet(S), Orders(R, S)
    PROVE  LET q == InOrder(S, R)
           IN  /\ Lists(q, S) /\ Len(q) = Cardinality(S)
               /\ \A i \in DOMAIN q : Place(S, R, q[i]) = i - 1
               /\ \A i, j \in DOMAIN q : i < j <=> <<q[i], q[j]>> \in R
<1> DEFINE n == Cardinality(S)
           q == InOrder(S, R)
           f == [i \in 1..n |-> CHOOSE x \in S : Place(S, R, x) + 1 = i]
<1>1. n \in Nat
  BY FS_CardinalityType
<1>2. ASSUME NEW i \in 1..n PROVE f[i] \in S /\ Place(S, R, f[i]) + 1 = i
  <2>1. PICK x \in S : Place(S, R, x) = i - 1
    <3>1. i - 1 \in 0 .. (n - 1)
      BY <1>1
    <3> QED  BY <3>1, PlacesAreAll
  <2>2. Place(S, R, x) + 1 = i
    BY <1>1, <2>1
  <2> QED  BY <2>2
<1>3. f \in [1..n -> S]
  BY <1>2
<1>4. q = f
  <2> DEFINE place == [x \in S |-> Cardinality({y \in S : <<y, x>> \in R}) + 1]
             g == [i \in 1..n |-> CHOOSE x \in S : place[x] = i]
  <2>1. \A x \in S : place[x] = Place(S, R, x) + 1
    BY DEF Place, Ahead
  <2>2. ASSUME NEW i \in 1..n PROVE g[i] = f[i]
    <3> HIDE DEF place
    <3>1. \A x \in S : place[x] = i <=> Place(S, R, x) + 1 = i
      BY <2>1
    <3>2. (CHOOSE x \in S : place[x] = i) = (CHOOSE x \in S : Place(S, R, x) + 1 = i)
      BY <3>1
    <3> QED  BY <3>2
  <2>3. g = f
    <3> HIDE DEF place
    <3> QED  BY <2>2
  <2>4. q = <<>> \o g
    BY DEF InOrder
  <2>5. <<>> \o f = f
    <3> HIDE DEF f
    <3> QED  BY <1>1, <1>3, FunctionIsSeq
  <2> HIDE DEF f, g, q, place
  <2> QED  BY <2>3, <2>4, <2>5
<1> HIDE DEF f, q
<1>5. q \in Seq(S) /\ Len(q) = n /\ DOMAIN q = 1..n
  BY <1>1, <1>3, <1>4, FunctionIsSeq
<1>6. \A x \in S : Place(S, R, x) \in 0 .. (n - 1)
  BY PlacesAreAll
<1>7. \A i \in 1..n : q[i] \in S /\ Place(S, R, q[i]) = i - 1
  BY <1>1, <1>2, <1>4, <1>6
<1>8. \A x \in S : \E i \in 1..n : q[i] = x
  <2> SUFFICES ASSUME NEW x \in S PROVE \E i \in 1..n : q[i] = x
    OBVIOUS
  <2>1. PICK i \in 1..n : i = Place(S, R, x) + 1
    BY <1>1, <1>6
  <2>2. q[i] \in S /\ Place(S, R, q[i]) = Place(S, R, x)
    BY <1>1, <1>6, <1>7, <2>1
  <2> QED  BY <2>2, PlacesAreAll
<1>9. \A i, j \in 1..n : q[i] = q[j] => i = j
  <2> SUFFICES ASSUME NEW i \in 1..n, NEW j \in 1..n, q[i] = q[j] PROVE i = j
    OBVIOUS
  <2>1. i - 1 = j - 1
    BY <1>7
  <2> QED  BY <1>1, <2>1
<1>10. \A i, j \in 1..n : i < j <=> <<q[i], q[j]>> \in R
  <2> SUFFICES ASSUME NEW i \in 1..n, NEW j \in 1..n PROVE i < j <=> <<q[i], q[j]>> \in R
    OBVIOUS
  <2>1. q[i] \in S /\ q[j] \in S /\ Place(S, R, q[i]) = i - 1 /\ Place(S, R, q[j]) = j - 1
    BY <1>7
  <2>2. <<q[i], q[j]>> \in R <=> i - 1 < j - 1
    BY <2>1, PlacesAreAll
  <2> QED  BY <1>1, <2>2
<1>11. Lists(q, S)
  BY <1>1, <1>5, <1>8, <1>9 DEF Lists
<1> QED  BY <1>5, <1>7, <1>10, <1>11 DEF q

-----------------------------------------------------------------------------
(* Rows and their tokens.                                                  *)
RowsOk(S) == S \subseteq Row /\ IsFiniteSet(S)
TokensOf == [r \in Row |-> r.tokens]

LEMMA TokensAreSum ==
    ASSUME NEW S, RowsOk(S)
    PROVE  Tokens(S) = Sum(TokensOf, S) /\ Tokens(S) \in Nat
<1> DEFINE f == [r \in S |-> r.tokens]
<1>1. Tokens(S) = Sum(f, S)
  BY DEF Tokens, SumFunction, Sum
<1>2. \A r \in S : f[r] = TokensOf[r] /\ TokensOf[r] \in Nat
  BY DashboardRows DEF RowsOk, TokensOf
<1>3. IsFiniteSet(S)
  BY DEF RowsOk
<1> HIDE DEF f
<1>4. Sum(f, S) = Sum(TokensOf, S)
  BY <1>2, <1>3, SumAgrees
<1>5. Sum(TokensOf, S) \in Nat
  BY <1>2, <1>3, SumNat
<1> QED  BY <1>1, <1>4, <1>5

LEMMA TokensOfPart ==
    ASSUME NEW S, NEW T, RowsOk(S), T \subseteq S
    PROVE  RowsOk(T) /\ Tokens(T) <= Tokens(S)
<1>1. RowsOk(T)
  BY FS_Subset DEF RowsOk
<1>2. \A r \in S : TokensOf[r] \in Nat
  BY DashboardRows DEF RowsOk, TokensOf
<1>3. IsFiniteSet(S)
  BY DEF RowsOk
<1>4. Sum(TokensOf, T) <= Sum(TokensOf, S)
  BY <1>2, <1>3, SumOfPart
<1> QED  BY <1>1, <1>4, TokensAreSum

(* The groups of some rows by h, which need not be of rows only.           *)
OfKey(S, h, k) == {r \in S : h[r] = k}
Group(S, h, k) == [key |-> k, totals |-> Totals(OfKey(S, h, k))]
Groups(S, h, K) == {Group(S, h, k) : k \in K}
TokensIn(g) == g.totals.tokens

LEMMA GroupIs ==
    ASSUME NEW S, NEW h, NEW k
    PROVE  Group(S, h, k).key = k /\ TokensIn(Group(S, h, k)) = Tokens(OfKey(S, h, k))
BY DEF Group, TokensIn, Totals

LEMMA WeightIsSum ==
    ASSUME NEW G
    PROVE  Weight(G) = Sum([g \in G |-> TokensIn(g)], G)
BY DEF Weight, SumFunction, Sum, TokensIn

(* Groups add up to their rows.                                            *)
LEMMA GroupsAddUp ==
    ASSUME NEW S, NEW h, NEW K, RowsOk(S), IsFiniteSet(K), \A r \in S : h[r] \in K
    PROVE  /\ IsFiniteSet(Groups(S, h, K)) /\ Weight(Groups(S, h, K)) = Tokens(S)
           /\ \A g \in Groups(S, h, K) :
                 /\ g.key \in K /\ TokensIn(g) = Tokens(OfKey(S, h, g.key)) /\ TokensIn(g) \in Nat
           /\ \A f, g \in Groups(S, h, K) : f.key = g.key => f = g
           /\ \A k \in K : \E g \in Groups(S, h, K) : g.key = k
<1> DEFINE G == Groups(S, h, K)
           at == [k \in K |-> Group(S, h, k)]
           w == [g \in G |-> TokensIn(g)]
           v == [k \in K |-> Sum(TokensOf, {r \in S : h[r] = k})]
<1>1. G = {at[k] : k \in K}
  BY DEF Groups
<1>2. \A k \in K : at[k].key = k /\ TokensIn(at[k]) = Tokens(OfKey(S, h, k))
  BY GroupIs
<1>3. \A k \in K : RowsOk(OfKey(S, h, k))
  BY TokensOfPart DEF OfKey
<1>4. \A k \in K : TokensIn(at[k]) = v[k] /\ v[k] \in Nat
  <2> SUFFICES ASSUME NEW k \in K PROVE TokensIn(at[k]) = v[k] /\ v[k] \in Nat
    OBVIOUS
  <2>1. v[k] = Sum(TokensOf, OfKey(S, h, k))
    BY DEF OfKey
  <2>2. Tokens(OfKey(S, h, k)) = Sum(TokensOf, OfKey(S, h, k)) /\ Tokens(OfKey(S, h, k)) \in Nat
    BY <1>3, TokensAreSum
  <2>3. TokensIn(at[k]) = Tokens(OfKey(S, h, k))
    BY <1>2
  <2> HIDE DEF v, at
  <2> QED  BY <2>1, <2>2, <2>3
<1> HIDE DEF at, v
<1>5. IsFiniteSet(G)
  BY <1>1, ImageIsFinite
<1>6. \A j, k \in K : at[j] = at[k] => j = k
  BY <1>2
<1>7. \A g \in G : w[g] \in Int /\ w[g] = TokensIn(g)
  BY <1>1, <1>4
<1>8. Weight(G) = Sum(w, G)
  BY WeightIsSum
<1> HIDE DEF w, G
<1>9. Sum(w, G) = Sum([k \in K |-> w[at[k]]], K)
  BY <1>1, <1>6, <1>7, SumRenamed
<1>10. \A k \in K : [j \in K |-> w[at[j]]][k] = v[k]
  BY <1>1, <1>4, <1>7
<1>11. Sum([k \in K |-> w[at[k]]], K) = Sum(v, K)
  BY <1>10, SumAgrees
<1>12. Sum(v, K) = Sum(TokensOf, S)
  <2>1. \A r \in S : TokensOf[r] \in Int /\ h[r] \in K
    BY DashboardRows DEF RowsOk, TokensOf
  <2>2. IsFiniteSet(S)
    BY DEF RowsOk
  <2> QED  BY <2>1, <2>2, SumGroups DEF v
<1>13. Weight(G) = Tokens(S)
  BY <1>8, <1>9, <1>11, <1>12, TokensAreSum
<1>14. \A g \in G : g.key \in K /\ TokensIn(g) = Tokens(OfKey(S, h, g.key)) /\ TokensIn(g) \in Nat
  BY <1>1, <1>2, <1>4
<1>15. \A f, g \in G : f.key = g.key => f = g
  BY <1>1, <1>2
<1>16. \A k \in K : \E g \in G : g.key = k
  BY <1>1, <1>2
<1> QED  BY <1>5, <1>13, <1>14, <1>15, <1>16 DEF G

-----------------------------------------------------------------------------
(* Groups in order: a table.                                               *)
Pairs(G) == {p \in G \X G : Heavier(p[1], p[2])}
GroupsOk(G) ==
    /\ IsFiniteSet(G)
    /\ \A g \in G : g.key \in Names /\ TokensIn(g) \in Nat
    /\ \A f, g \in G : f.key = g.key => f = g

LEMMA PairsOrder ==
    ASSUME NEW G, GroupsOk(G)
    PROVE  Orders(Pairs(G), G)
<1>1. \A f, g \in G : <<f, g>> \in Pairs(G) <=>
          \/ TokensIn(f) > TokensIn(g)
          \/ TokensIn(f) = TokensIn(g) /\ Before(f.key, g.key)
  BY DEF Pairs, Heavier, TokensIn
<1>2. \A g \in G : g.key \in Names /\ TokensIn(g) \in Nat
  BY DEF GroupsOk
<1>3. \A f, g \in G : f.key = g.key => f = g
  BY DEF GroupsOk
<1>4. \A g \in G : <<g, g>> \notin Pairs(G)
  BY <1>1, <1>2, DashboardNames
<1>5. \A f, g \in G : f = g \/ <<f, g>> \in Pairs(G) \/ <<g, f>> \in Pairs(G)
  <2> SUFFICES ASSUME NEW f \in G, NEW g \in G, f # g
               PROVE  <<f, g>> \in Pairs(G) \/ <<g, f>> \in Pairs(G)
    OBVIOUS
  <2>1. f.key # g.key /\ f.key \in Names /\ g.key \in Names
    BY <1>2, <1>3
  <2>2. Before(f.key, g.key) \/ Before(g.key, f.key)
    BY <2>1, DashboardNames
  <2> QED  BY <1>1, <1>2, <2>2
<1>6. \A e, f, g \in G : <<e, f>> \in Pairs(G) /\ <<f, g>> \in Pairs(G) => <<e, g>> \in Pairs(G)
  <2> SUFFICES ASSUME NEW e \in G, NEW f \in G, NEW g \in G, <<e, f>> \in Pairs(G), <<f, g>> \in Pairs(G)
               PROVE  <<e, g>> \in Pairs(G)
    OBVIOUS
  <2>1. Before(e.key, f.key) /\ Before(f.key, g.key) => Before(e.key, g.key)
    BY <1>2, DashboardNames
  <2>2. TokensIn(e) \in Nat /\ TokensIn(f) \in Nat /\ TokensIn(g) \in Nat
    BY <1>2
  <2> QED  BY <1>1, <2>1, <2>2
<1> QED  BY <1>4, <1>5, <1>6 DEF Orders

LEMMA HeaviestLists ==
    ASSUME NEW G, GroupsOk(G)
    PROVE  Lists(Heaviest(G), G) /\ Len(Heaviest(G)) = Cardinality(G)
<1>1. IsFiniteSet(G)
  BY DEF GroupsOk
<1>2. Heaviest(G) = InOrder(G, Pairs(G))
  BY DEF Heaviest, Pairs
<1> QED  BY <1>1, <1>2, PairsOrder, InOrderLists

(* The weight of a table, by its rows.                                     *)
LEMMA WeightByRow ==
    ASSUME NEW G, GroupsOk(G), NEW t, Lists(t, G), NEW I, I \subseteq DOMAIN t
    PROVE  /\ Weight({t[i] : i \in I}) = Sum([i \in DOMAIN t |-> TokensIn(t[i])], I)
           /\ Weight({t[i] : i \in I}) \in Nat
<1> DEFINE T == {t[i] : i \in I}
           w == [g \in T |-> TokensIn(g)]
           v == [i \in DOMAIN t |-> TokensIn(t[i])]
<1>1. /\ IsFiniteSet(DOMAIN t) /\ \A i \in DOMAIN t : t[i] \in G
      /\ \A i, j \in DOMAIN t : t[i] = t[j] => i = j
  BY ListOfAll DEF Lists
<1>2. IsFiniteSet(I) /\ \A i, j \in I : t[i] = t[j] => i = j
  BY <1>1, FS_Subset
<1>3. \A g \in G : TokensIn(g) \in Nat
  BY DEF GroupsOk
<1>4. \A i \in I : t[i] \in T /\ w[t[i]] = v[i] /\ v[i] \in Nat
  BY <1>1, <1>3
<1>5. Weight(T) = Sum(w, T)
  BY WeightIsSum
<1>6. T = {t[i] : i \in I} /\ \A g \in T : w[g] \in Int
  BY <1>1, <1>3
<1> HIDE DEF T, w, v
<1>7. Sum(w, T) = Sum([i \in I |-> w[t[i]]], I)
  BY <1>2, <1>6, SumRenamed
<1>8. Sum([i \in I |-> w[t[i]]], I) = Sum(v, I)
  BY <1>2, <1>4, SumAgrees
<1>9. Sum(v, I) \in Nat
  BY <1>2, <1>4, SumNat
<1> QED  BY <1>5, <1>7, <1>8, <1>9 DEF T, v

-----------------------------------------------------------------------------
(* What a request reads.                                                   *)
DbOk(db) ==
    /\ RowsOk(db.rows) /\ \A r \in db.rows : r.member \in DOMAIN db.revoked
    /\ IsFiniteSet(DOMAIN db.revoked) /\ DOMAIN db.revoked \subseteq Member
Sel(db, q) == Selected(db.rows, q)
MemberOf == [r \in Row |-> r.member]
ModelOf == [r \in Row |-> r.model]
SessionOf == [r \in Row |-> r.session]

LEMMA AllNamed ==
    Member \subseteq Names /\ \A r \in Row : {r.member, r.model, r.session} \subseteq Names
<1>1. Member \subseteq Names
  <2>1. PICK S : Names = ToSet(Joined) \cup S
    BY DEF Names
  <2> QED  BY <2>1 DEF Member
<1>2. ASSUME NEW r \in Row PROVE {r.member, r.model, r.session} \subseteq Names
  <2>1. {r.member, r.model, r.session} \in {{s.member, s.model, s.session} : s \in Row}
    OBVIOUS
  <2> QED  BY <2>1 DEF Names
<1> QED  BY <1>1, <1>2

LEMMA SelectedOk ==
    ASSUME NEW db, NEW q, DbOk(db)
    PROVE  /\ RowsOk(Sel(db, q)) /\ Sel(db, q) \subseteq db.rows /\ Tokens(Sel(db, q)) \in Nat
           /\ \A r \in Sel(db, q) : r.member \in DOMAIN db.revoked
<1>1. RowsOk(db.rows) /\ Sel(db, q) \subseteq db.rows
  BY DEF DbOk, Sel, Selected
<1>2. RowsOk(Sel(db, q))
  BY <1>1, TokensOfPart
<1>3. Tokens(Sel(db, q)) \in Nat
  BY <1>2, TokensAreSum
<1> QED  BY <1>1, <1>2, <1>3 DEF DbOk

LEMMA KeysAre ==
    ASSUME NEW S, S \subseteq Row, NEW k
    PROVE  /\ {r \in S : r.member = k} = OfKey(S, MemberOf, k)
           /\ {r \in S : r.model = k} = OfKey(S, ModelOf, k)
           /\ {r \in S : r.session = k} = OfKey(S, SessionOf, k)
BY DEF OfKey, MemberOf, ModelOf, SessionOf

Listed(db, q) ==
    {m \in DOMAIN db.revoked :
        {r \in Sel(db, q) : r.member = m} # {} \/ (~db.revoked[m] /\ m # Placeholder)}
MemberGroups(db, q) == Groups(Sel(db, q), MemberOf, Listed(db, q))

LEMMA MemberTable ==
    ASSUME NEW db, NEW q, DbOk(db)
    PROVE  /\ MemberUsage(db, q) = Heaviest(MemberGroups(db, q))
           /\ GroupsOk(MemberGroups(db, q)) /\ Weight(MemberGroups(db, q)) = Tokens(Sel(db, q))
           /\ \A g \in MemberGroups(db, q) : TokensIn(g) = Tokens({r \in Sel(db, q) : r.member = g.key})
           /\ \A m \in DOMAIN db.revoked :
                 \/ \E g \in MemberGroups(db, q) : g.key = m
                 \/ {r \in Sel(db, q) : r.member = m} = {}
<1> DEFINE S == Sel(db, q)
           K == Listed(db, q)
           G == MemberGroups(db, q)
           A == {[key |-> m, totals |-> Totals({r \in S : r.member = m})] : m \in K}
<1>1. RowsOk(S) /\ S \subseteq Row /\ \A r \in S : r.member \in DOMAIN db.revoked /\ MemberOf[r] = r.member
  BY SelectedOk DEF RowsOk, MemberOf
<1>2. K \subseteq DOMAIN db.revoked /\ IsFiniteSet(K) /\ K \subseteq Names
  <2>1. K \subseteq DOMAIN db.revoked /\ IsFiniteSet(DOMAIN db.revoked) /\ DOMAIN db.revoked \subseteq Member
    BY DEF Listed, DbOk
  <2> HIDE DEF K
  <2>2. IsFiniteSet(K)
    BY <2>1, FS_Subset
  <2> QED  BY <2>1, <2>2, AllNamed
<1>3. \A r \in S : MemberOf[r] \in K
  BY <1>1 DEF Listed
<1> HIDE DEF S, K
<1>4. /\ IsFiniteSet(Groups(S, MemberOf, K)) /\ Weight(Groups(S, MemberOf, K)) = Tokens(S)
      /\ \A g \in Groups(S, MemberOf, K) :
            /\ g.key \in K /\ TokensIn(g) = Tokens(OfKey(S, MemberOf, g.key)) /\ TokensIn(g) \in Nat
      /\ \A f, g \in Groups(S, MemberOf, K) : f.key = g.key => f = g
      /\ \A k \in K : \E g \in Groups(S, MemberOf, K) : g.key = k
  BY <1>1, <1>2, <1>3, GroupsAddUp
<1>5. G = Groups(S, MemberOf, K)
  BY DEF MemberGroups, S, K
<1>6. A = Groups(S, MemberOf, K)
  <2>1. \A m \in K : {r \in S : r.member = m} = OfKey(S, MemberOf, m)
    BY <1>1, KeysAre
  <2>2. \A m \in K : [key |-> m, totals |-> Totals({r \in S : r.member = m})] = Group(S, MemberOf, m)
    BY <2>1 DEF Group
  <2> QED  BY <2>2 DEF Groups
<1>7. MemberUsage(db, q) = Heaviest(A)
  BY DEF MemberUsage, Listed, Sel, S, K
<1>8. GroupsOk(G)
  BY <1>2, <1>4, <1>5 DEF GroupsOk
<1>9. ASSUME NEW g \in G PROVE TokensIn(g) = Tokens({r \in S : r.member = g.key})
  <2>1. OfKey(S, MemberOf, g.key) = {r \in S : r.member = g.key}
    BY <1>1, KeysAre
  <2> QED  BY <1>4, <1>5, <2>1
<1>10. \A m \in DOMAIN db.revoked : m \in K \/ {r \in S : r.member = m} = {}
  BY DEF Listed, S, K
<1> QED  BY <1>4, <1>5, <1>6, <1>7, <1>8, <1>9, <1>10 DEF S

(* A table of groups, and of part of the rows.                             *)
LEMMA TableWeighs ==
    ASSUME NEW G, GroupsOk(G)
    PROVE  LET t == Heaviest(G) IN ToSet(t) = G /\ Weight(ToSet(t)) = Weight(G)
BY HeaviestLists, ListOfAll

ModelGroups(S) == Groups(S, ModelOf, {r.model : r \in S})
LEMMA ModelGroupsOk ==
    ASSUME NEW S, RowsOk(S)
    PROVE  /\ GroupBy(S, LAMBDA r : r.model) = ModelGroups(S)
           /\ GroupsOk(ModelGroups(S)) /\ Weight(ModelGroups(S)) = Tokens(S)
<1> DEFINE K == {r.model : r \in S}
<1>1. IsFiniteSet(S) /\ S \subseteq Row
  BY DEF RowsOk
<1>2. K = {ModelOf[r] : r \in S} /\ \A r \in S : ModelOf[r] \in K
  BY <1>1 DEF ModelOf
<1>3. K \subseteq Names
  BY <1>1, AllNamed
<1>4. GroupBy(S, LAMBDA r : r.model) = {[key |-> k, totals |-> Totals({r \in S : r.model = k})] : k \in K}
  BY DEF GroupBy
<1> HIDE DEF K
<1>5. IsFiniteSet(K)
  BY <1>1, <1>2, ImageIsFinite
<1>6. /\ IsFiniteSet(Groups(S, ModelOf, K)) /\ Weight(Groups(S, ModelOf, K)) = Tokens(S)
      /\ \A g \in Groups(S, ModelOf, K) : g.key \in K /\ TokensIn(g) \in Nat
      /\ \A f, g \in Groups(S, ModelOf, K) : f.key = g.key => f = g
  BY <1>2, <1>5, GroupsAddUp
<1>7. {[key |-> k, totals |-> Totals({r \in S : r.model = k})] : k \in K} = Groups(S, ModelOf, K)
  <2>1. \A k \in K : [key |-> k, totals |-> Totals({r \in S : r.model = k})] = Group(S, ModelOf, k)
    BY <1>1, KeysAre DEF Group
  <2> QED  BY <2>1 DEF Groups
<1>8. ModelGroups(S) = Groups(S, ModelOf, K)
  BY DEF ModelGroups, K
<1>9. GroupsOk(ModelGroups(S))
  BY <1>3, <1>6, <1>8 DEF GroupsOk
<1> QED  BY <1>4, <1>6, <1>7, <1>8, <1>9

(* Groups by pairs and triples.                                            *)
SourceOf == [r \in Row |-> <<r.source, r.source \in Overhead>>]
ProfileOf == [r \in Row |-> <<r.member, r.host, r.profile>>]
AllOf(range) == [range |-> range, filter |-> [group |-> "all", source |-> NULL]]

LEMMA GroupsOfAll ==
    ASSUME NEW S, RowsOk(S), NEW h
    PROVE  LET K == {h[r] : r \in S}
           IN  Weight(Groups(S, h, K)) = Tokens(S) /\ IsFiniteSet(Groups(S, h, K)) /\ IsFiniteSet(K)
<1> DEFINE K == {h[r] : r \in S}
<1>1. IsFiniteSet(S)
  BY DEF RowsOk
<1>2. PICK J : J = K
  OBVIOUS
<1>3. J = {h[r] : r \in S} /\ \A r \in S : h[r] \in J
  BY <1>2
<1>4. IsFiniteSet(J)
  BY <1>1, <1>3, ImageIsFinite
<1>5. Weight(Groups(S, h, J)) = Tokens(S) /\ IsFiniteSet(Groups(S, h, J))
  BY <1>3, <1>4, GroupsAddUp
<1> QED  BY <1>2, <1>4, <1>5

LEMMA SourcesWeigh ==
    ASSUME NEW db, NEW range, DbOk(db)
    PROVE  Weight(SourceUsage(db, range)) = Tokens(Sel(db, AllOf(range)))
<1> DEFINE S == Sel(db, AllOf(range))
           J == {<<r.source, r.source \in Overhead>> : r \in S}
           K == {SourceOf[r] : r \in S}
<1>1. RowsOk(S) /\ S \subseteq Row
  BY SelectedOk DEF RowsOk
<1>2. SourceUsage(db, range)
        = {[key |-> k, totals |-> Totals({r \in S : <<r.source, r.source \in Overhead>> = k})] : k \in J}
  BY DEF SourceUsage, GroupBy, Sel, AllOf
<1> HIDE DEF S
<1>3. J = K /\ \A r \in S : SourceOf[r] = <<r.source, r.source \in Overhead>>
  BY <1>1 DEF SourceOf
<1>4. \A k : {r \in S : <<r.source, r.source \in Overhead>> = k} = OfKey(S, SourceOf, k)
  BY <1>3 DEF OfKey
<1> HIDE DEF J
<1>5. SourceUsage(db, range) = {Group(S, SourceOf, k) : k \in J}
  <2>1. \A k \in J : [key |-> k, totals |-> Totals({r \in S : <<r.source, r.source \in Overhead>> = k})]
                          = Group(S, SourceOf, k)
    BY <1>4 DEF Group
  <2> QED  BY <1>2, <2>1
<1>6. SourceUsage(db, range) = Groups(S, SourceOf, K)
  BY <1>3, <1>5 DEF Groups
<1> QED  BY <1>1, <1>6, GroupsOfAll DEF S

LEMMA ProfilesWeigh ==
    ASSUME NEW db, NEW q, DbOk(db)
    PROVE  Weight(ProfileUsage(db, q)) = Tokens(Sel(db, q))
<1> DEFINE S == Sel(db, q)
           J == {<<r.member, r.host, r.profile>> : r \in S}
           K == {ProfileOf[r] : r \in S}
<1>1. RowsOk(S) /\ S \subseteq Row
  BY SelectedOk DEF RowsOk
<1>2. ProfileUsage(db, q)
        = {[key |-> k, totals |-> Totals({r \in S : <<r.member, r.host, r.profile>> = k})] : k \in J}
  BY DEF ProfileUsage, GroupBy, Sel
<1> HIDE DEF S
<1>3. J = K /\ \A r \in S : ProfileOf[r] = <<r.member, r.host, r.profile>>
  BY <1>1 DEF ProfileOf
<1>4. \A k : {r \in S : <<r.member, r.host, r.profile>> = k} = OfKey(S, ProfileOf, k)
  BY <1>3 DEF OfKey
<1> HIDE DEF J
<1>5. ProfileUsage(db, q) = {Group(S, ProfileOf, k) : k \in J}
  <2>1. \A k \in J : [key |-> k, totals |-> Totals({r \in S : <<r.member, r.host, r.profile>> = k})]
                          = Group(S, ProfileOf, k)
    BY <1>4 DEF Group
  <2> QED  BY <1>2, <2>1
<1>6. ProfileUsage(db, q) = Groups(S, ProfileOf, K)
  BY <1>3, <1>5 DEF Groups
<1> QED  BY <1>1, <1>6, GroupsOfAll DEF S

(* Nothing that is selected is left out when everything is.                *)
LEMMA AllIsMore ==
    ASSUME NEW db, NEW q, DbOk(db)
    PROVE  /\ Tokens(Sel(db, AllOf(q.range))) >= Tokens(Sel(db, q))
           /\ q.filter.group = "all" /\ q.filter.source = NULL =>
                 Sel(db, AllOf(q.range)) = Sel(db, q)
<1>1. \A r : Passes(r, AllOf(q.range).filter)
  BY DEF Passes, AllOf
<1>2. Sel(db, AllOf(q.range)) = {r \in db.rows : q.range.from <= r.at /\ r.at < q.range.to}
  BY <1>1 DEF Sel, Selected, AllOf
<1>3. Sel(db, q) \subseteq Sel(db, AllOf(q.range))
  BY <1>2 DEF Sel, Selected
<1>4. q.filter.group = "all" /\ q.filter.source = NULL => \A r : Passes(r, q.filter)
  BY DEF Passes
<1>5. q.filter.group = "all" /\ q.filter.source = NULL => Sel(db, AllOf(q.range)) = Sel(db, q)
  BY <1>2, <1>4 DEF Sel, Selected
<1>6. Tokens(Sel(db, AllOf(q.range))) \in Nat /\ Tokens(Sel(db, q)) \in Nat
  BY SelectedOk
<1>7. Tokens(Sel(db, q)) <= Tokens(Sel(db, AllOf(q.range)))
  BY <1>3, SelectedOk, TokensOfPart
<1> QED  BY <1>5, <1>6, <1>7

-----------------------------------------------------------------------------
(* The fold of what comes last.                                            *)
Most(t, most) == IF Len(t) > most THEN most - 1 ELSE Len(t)
LEMMA FoldOf ==
    ASSUME NEW G, NEW t \in Seq(G), NEW most \in Nat \ {0}
    PROVE  LET n == Most(t, most)
           IN  /\ n \in 0..Len(t) /\ Named(t, most) \in Seq(G) /\ Len(Named(t, most)) = n
               /\ DOMAIN Named(t, most) = 1..n /\ \A i \in 1..n : Named(t, most)[i] = t[i]
               /\ (Folded(t, most) = <<>>) <=> Len(t) <= most
               /\ n = IF Len(t) <= most THEN Len(t) ELSE most - 1
               /\ ToSet(Folded(t, most)) = {t[i] : i \in n + 1..Len(t)}
<1>1. PICK L \in Nat : L = Len(t)
  BY LenProperties
<1>2. DOMAIN t = 1..L /\ \A i \in 1..L : t[i] \in G
  BY <1>1, LenProperties, ElementOfSeq
<1>3. PICK n \in 0..L : n = Most(t, most) /\ n = IF L > most THEN most - 1 ELSE L
  BY <1>1 DEF Most
<1> DEFINE N == Named(t, most)
           F == Folded(t, most)
<1>4. N \in Seq(G) /\ Len(N) = n /\ \A i \in 1..n : N[i] = t[i]
  <2>1. CASE L > most
    <3>1. PICK m \in Int : m = most - 1 /\ m = n /\ 0 <= m /\ m < L
      BY <1>3, <2>1
    <3>2. N = SubSeq(t, 1, m)
      BY <1>1, <2>1, <3>1 DEF Named
    <3>3. \A i \in 1..m : t[i] \in G
      BY <1>2, <3>1
    <3>4. /\ SubSeq(t, 1, m) \in Seq(G)
          /\ Len(SubSeq(t, 1, m)) = IF 1 <= m THEN m - 1 + 1 ELSE 0
          /\ \A i \in 1..m - 1 + 1 : SubSeq(t, 1, m)[i] = t[1 + i - 1]
      BY <3>3, SubSeqProperties
    <3>5. m - 1 + 1 = m /\ \A i \in 1..m : 1 + i - 1 = i
      OBVIOUS
    <3> QED  BY <3>1, <3>2, <3>4, <3>5
  <2>2. CASE ~(L > most)
    BY <1>1, <1>3, <2>2 DEF Named
  <2> QED  BY <2>1, <2>2
<1>5. DOMAIN N = 1..n
  BY <1>4, LenProperties
<1>6. PICK m \in Int : m = n + 1 /\ F = SubSeq(t, m, L)
  <2>1. F = SubSeq(t, n + 1, L) /\ n + 1 \in Int
    BY <1>1, <1>4 DEF Folded
  <2> HIDE DEF F
  <2> QED  BY <2>1
<1>7. PICK l \in Nat : l = L - n
  <2>1. L - n \in Nat
    BY <1>3
  <2> QED  BY <2>1
<1>8. F \in Seq(G) /\ Len(F) = l /\ \A i \in 1..l : F[i] = t[n + i]
  <2>1. \A i \in m..L : t[i] \in G
    BY <1>2, <1>3, <1>6
  <2>2. /\ SubSeq(t, m, L) \in Seq(G)
        /\ Len(SubSeq(t, m, L)) = IF m <= L THEN L - m + 1 ELSE 0
        /\ \A i \in 1..L - m + 1 : SubSeq(t, m, L)[i] = t[m + i - 1]
    BY <2>1, SubSeqProperties
  <2>3. L - m + 1 = l /\ (m <= L \/ l = 0) /\ \A i \in 1..l : m + i - 1 = n + i
    BY <1>3, <1>6, <1>7
  <2> HIDE DEF F
  <2> QED  BY <1>6, <1>7, <2>2, <2>3
<1> HIDE DEF F, N
<1>9. DOMAIN F = 1..l
  BY <1>8, LenProperties
<1>10. F = <<>> <=> L <= most
  <2>1. F = <<>> <=> l = 0
    BY <1>8, EmptySeq
  <2> QED  BY <1>3, <1>7, <2>1
<1>11. ToSet(F) = {t[i] : i \in n + 1..L}
  <2>1. ToSet(F) = {F[i] : i \in 1..l}
    BY <1>9 DEF ToSet
  <2>2. ASSUME NEW i \in n + 1..L PROVE \E j \in 1..l : F[j] = t[i]
    <3>1. PICK j \in 1..l : n + j = i
      <4>1. i - n \in 1..l /\ n + (i - n) = i
        BY <1>3, <1>7
      <4> QED  BY <4>1
    <3> QED  BY <1>8, <3>1
  <2>3. ASSUME NEW j \in 1..l PROVE \E i \in n + 1..L : F[j] = t[i]
    <3>1. PICK i \in n + 1..L : i = n + j
      <4>1. n + j \in n + 1..L
        BY <1>3, <1>7
      <4> QED  BY <4>1
    <3> QED  BY <1>8, <3>1
  <2>4. \A x : x \in {F[j] : j \in 1..l} <=> x \in {t[i] : i \in n + 1..L}
    <3>1. \A i \in n + 1..L : \E j \in 1..l : F[j] = t[i]
      BY <2>2
    <3>2. \A j \in 1..l : \E i \in n + 1..L : F[j] = t[i]
      BY <2>3
    <3>3. ASSUME NEW x \in {F[j] : j \in 1..l} PROVE x \in {t[i] : i \in n + 1..L}
      <4>1. PICK j \in 1..l : x = F[j]
        OBVIOUS
      <4>2. PICK i \in n + 1..L : F[j] = t[i]
        BY <3>2
      <4> QED  BY <4>1, <4>2
    <3>4. ASSUME NEW x \in {t[i] : i \in n + 1..L} PROVE x \in {F[j] : j \in 1..l}
      <4>1. PICK i \in n + 1..L : x = t[i]
        OBVIOUS
      <4>2. PICK j \in 1..l : F[j] = t[i]
        BY <3>1
      <4> QED  BY <4>1, <4>2
    <3> QED  BY <3>3, <3>4
  <2> QED  BY <2>1, <2>4
<1>12. n = IF L <= most THEN L ELSE most - 1
  BY <1>3
<1> QED  BY <1>1, <1>3, <1>4, <1>5, <1>10, <1>11, <1>12 DEF N, F

(* A sum of a sequence.                                                    *)
LEMMA SumsOver ==
    ASSUME NEW f PROVE SumFunction(f) = Sum(f, DOMAIN f)
BY DEF SumFunction, Sum

LEMMA SumOfSeq ==
    ASSUME NEW n \in Nat, NEW f \in [1..n -> Nat], NEW x \in Nat
    PROVE  LET g == f \o <<x>>
           IN  /\ SumFunction(g) = SumFunction(f) + x /\ Len(g) = n + 1 /\ Len(f) = n
               /\ SumFunction(f \o <<>>) = SumFunction(f) /\ Len(f \o <<>>) = n
<1> DEFINE g == f \o <<x>>
<1>1. f \in Seq(Nat) /\ Len(f) = n /\ f \o <<>> = f
  BY FunctionIsSeq, ConcatEmptySeq
<1>2. <<x>> \in Seq(Nat) /\ Len(<<x>>) = 1 /\ <<x>>[1] = x
  OBVIOUS
<1>3. /\ Len(g) = n + 1 /\ g \in Seq(Nat)
      /\ \A i \in 1..n + 1 : g[i] = IF i <= n THEN f[i] ELSE <<x>>[i - n]
  BY <1>1, <1>2, ConcatProperties
<1>4. DOMAIN g = 1..n + 1
  BY <1>3, LenProperties
<1> HIDE DEF g
<1>5. PICK m \in Nat : m = n + 1
  OBVIOUS
<1>6. \A i \in 1..n : g[i] = f[i] /\ g[i] \in Int
  BY <1>3
<1>7. g[m] = x
  <2>1. m \in 1..n + 1 /\ ~(m <= n) /\ m - n = 1
    BY <1>5
  <2> QED  BY <1>2, <1>3, <2>1
<1>8. IsFiniteSet(1..n) /\ DOMAIN f = 1..n
  BY FS_Interval
<1>9. DOMAIN g = (1..n) \cup {m} /\ m \notin 1..n
  BY <1>4, <1>5
<1>10. Sum(g, (1..n) \cup {m}) = g[m] + Sum(g, 1..n)
  <2>1. \A i \in (1..n) \cup {m} : g[i] \in Int
    BY <1>6, <1>7
  <2> QED  BY <1>8, <1>9, <2>1, SumAdds
<1>11. Sum(g, 1..n) = Sum(f, 1..n)
  BY <1>6, <1>8, SumAgrees
<1>12. Sum(f, 1..n) \in Nat
  BY <1>8, SumNat
<1>13. SumFunction(g) = SumFunction(f) + x
  <2>1. SumFunction(g) = x + Sum(f, 1..n) /\ SumFunction(f) = Sum(f, 1..n)
    BY <1>7, <1>8, <1>9, <1>10, <1>11, SumsOver
  <2> QED  BY <1>12, <2>1
<1> QED  BY <1>1, <1>3, <1>13 DEF g

(* The bars: the fold loses nothing.                                       *)
LEMMA BarsAddUp ==
    ASSUME NEW G, GroupsOk(G), NEW t, Lists(t, G)
    PROVE  SumFunction(Bars(t)) = Weight(G) /\ Len(Bars(t)) <= MaxBars
<1>1. PICK L \in Nat : L = Len(t)
  BY DEF Lists
<1>2. t \in Seq(G) /\ DOMAIN t = 1..L /\ IsFiniteSet(1..L) /\ G = {t[i] : i \in 1..L}
  BY <1>1, ListOfAll DEF Lists
<1>3. PICK n \in 0..L : n = Most(t, MaxBars)
  BY <1>1, <1>2, ChartsAssumption, FoldOf
<1>4. /\ DOMAIN Named(t, MaxBars) = 1..n
      /\ (Folded(t, MaxBars) = <<>>) <=> L <= MaxBars
      /\ n = IF L <= MaxBars THEN L ELSE MaxBars - 1
      /\ ToSet(Folded(t, MaxBars)) = {t[i] : i \in n + 1..L}
  BY <1>1, <1>2, <1>3, ChartsAssumption, FoldOf
<1> DEFINE v == [i \in DOMAIN t |-> TokensIn(t[i])]
           f == [i \in 1..n |-> t[i].totals.tokens]
           W == Weight({t[i] : i \in n + 1..L})
<1>5. \A i \in 1..L : v[i] \in Nat
  BY <1>2, ListOfAll DEF GroupsOk
<1>6. f \in [1..n -> Nat] /\ \A i \in 1..n : f[i] = v[i]
  <2>1. \A i \in 1..n : i \in 1..L /\ t[i].totals.tokens = TokensIn(t[i])
    BY <1>3 DEF TokensIn
  <2>2. \A i \in 1..n : t[i].totals.tokens = v[i] /\ v[i] \in Nat
    BY <1>2, <1>5, <2>1
  <2> HIDE DEF v
  <2> QED  BY <2>2
<1>7. 1..n \subseteq DOMAIN t /\ n + 1..L \subseteq DOMAIN t /\ 1..L = (1..n) \cup (n + 1..L)
      /\ (1..n) \cap (n + 1..L) = {}
  BY <1>2, <1>3
<1>8. W = Sum(v, n + 1..L) /\ W \in Nat /\ Weight(G) = Sum(v, 1..L)
  <2>1. W = Sum(v, n + 1..L) /\ W \in Nat
    BY <1>7, WeightByRow
  <2>2. Weight({t[i] : i \in 1..L}) = Sum(v, 1..L)
    BY <1>2, WeightByRow
  <2> QED  BY <1>2, <2>1, <2>2
<1>9. SumFunction(f) = Sum(v, 1..n)
  <2>1. IsFiniteSet(1..n)
    BY <1>3, FS_Interval
  <2>2. DOMAIN f = 1..n
    OBVIOUS
  <2> HIDE DEF f, v
  <2>3. Sum(f, 1..n) = Sum(v, 1..n)
    BY <1>6, <2>1, SumAgrees
  <2> QED  BY <2>2, <2>3, SumsOver
<1> HIDE DEF v, W
<1>10. Bars(t) = f \o (IF L <= MaxBars THEN <<>> ELSE <<W>>)
  BY <1>4 DEF Bars, W
<1> HIDE DEF f
<1>11. CASE L <= MaxBars
  <2>1. n = L /\ Bars(t) = f \o <<>>
    BY <1>4, <1>10, <1>11
  <2>2. SumFunction(Bars(t)) = SumFunction(f) /\ Len(Bars(t)) = n
    BY <1>3, <1>6, <2>1, SumOfSeq
  <2> QED  BY <1>8, <1>9, <1>11, <2>1, <2>2
<1>12. CASE ~(L <= MaxBars)
  <2>1. Bars(t) = f \o <<W>>
    BY <1>10, <1>12
  <2>2. SumFunction(Bars(t)) = SumFunction(f) + W /\ Len(Bars(t)) = n + 1
    <3>1. n \in Nat /\ f \in [1..n -> Nat] /\ W \in Nat
      BY <1>3, <1>6, <1>8
    <3> QED  BY <2>1, <3>1, SumOfSeq
  <2>3. Sum(v, 1..L) = Sum(v, 1..n) + Sum(v, n + 1..L)
    <3>1. IsFiniteSet(1..n) /\ IsFiniteSet(n + 1..L)
      BY <1>2, <1>7, FS_Subset
    <3>2. \A i \in (1..n) \cup (n + 1..L) : v[i] \in Int
      BY <1>5, <1>7
    <3> QED  BY <1>7, <3>1, <3>2, SumParts
  <2>4. n + 1 <= MaxBars
    BY <1>4, <1>12, ChartsAssumption
  <2> QED  BY <1>8, <1>9, <2>2, <2>3, <2>4
<1> QED  BY <1>11, <1>12

LEMMA Distributes ==
    ASSUME NEW a \in Int, NEW b \in Int, NEW c \in Int
    PROVE  /\ a * b \in Int /\ a * c \in Int /\ b + c \in Int
           /\ a * (b + c) = a * b + a * c /\ a * (b - c) = a * b - a * c
OBVIOUS

(* Sums go with multiples and with sums.                                   *)
Linear(S, f, g, h, a, b) ==
    \A x \in S : f[x] \in Int /\ g[x] \in Int /\ h[x] \in Int /\ a * f[x] = b * g[x] + h[x]
LEMMA SumIsLinear ==
    ASSUME NEW S, IsFiniteSet(S), NEW f, NEW g, NEW h, NEW a \in Int, NEW b \in Int,
           Linear(S, f, g, h, a, b)
    PROVE  /\ Sum(f, S) \in Int /\ Sum(g, S) \in Int /\ Sum(h, S) \in Int
           /\ a * Sum(f, S) = b * Sum(g, S) + Sum(h, S)
<1> DEFINE C == {T \in SUBSET S : a * Sum(f, T) = b * Sum(g, T) + Sum(h, T)}
<1> USE DEF Linear
<1>1. {} \in C
  <2>1. Sum(f, {}) = 0 /\ Sum(g, {}) = 0 /\ Sum(h, {}) = 0
    BY SumEmpty
  <2>2. a * 0 = b * 0 + 0 /\ {} \in SUBSET S
    OBVIOUS
  <2> QED  BY <2>1, <2>2
<1>2. ASSUME NEW T \in SUBSET S, NEW x \in S \ T, T \in C PROVE T \cup {x} \in C
  <2>1. IsFiniteSet(T) /\ x \notin T
    BY FS_Subset
  <2>2. /\ Sum(f, T \cup {x}) = f[x] + Sum(f, T) /\ Sum(g, T \cup {x}) = g[x] + Sum(g, T)
        /\ Sum(h, T \cup {x}) = h[x] + Sum(h, T)
    BY <2>1, SumAdds
  <2>3. PICK F, G, H \in Int : F = Sum(f, T) /\ G = Sum(g, T) /\ H = Sum(h, T)
    BY <2>1, SumType
  <2>4. PICK p, q, r \in Int : p = f[x] /\ q = g[x] /\ r = h[x]
    OBVIOUS
  <2>5. a * F = b * G + H /\ a * p = b * q + r
    BY <1>2, <2>3, <2>4
  <2>6. a * (p + F) = a * p + a * F /\ b * (q + G) = b * q + b * G
    BY Distributes
  <2>7. PICK aF, ap, bG, bq \in Int : aF = a * F /\ ap = a * p /\ bG = b * G /\ bq = b * q
    BY Distributes
  <2>8. a * (p + F) = b * (q + G) + (r + H)
    <3>1. ap + aF = bq + bG + (r + H)
      BY <2>5, <2>7
    <3> QED  BY <2>6, <2>7, <3>1
  <2>9. a * Sum(f, T \cup {x}) = b * Sum(g, T \cup {x}) + Sum(h, T \cup {x})
    BY <2>2, <2>3, <2>4, <2>8
  <2> QED  BY <2>9
<1> HIDE DEF C
<1>3. S \in C
  BY <1>1, <1>2, ByElement
<1> QED  BY <1>3, SumType DEF C

LEMMA SumIsBelow ==
    ASSUME NEW S, IsFiniteSet(S), NEW f, NEW b \in Int, \A x \in S : f[x] \in Int /\ f[x] <= b
    PROVE  Sum(f, S) <= b * Cardinality(S)
<1> DEFINE C == {T \in SUBSET S : Sum(f, T) <= b * Cardinality(T)}
<1>1. {} \in C
  <2>1. Sum(f, {}) = 0 /\ Cardinality({}) = 0
    BY SumEmpty, FS_EmptySet
  <2>2. 0 <= b * 0 /\ {} \in SUBSET S
    OBVIOUS
  <2> QED  BY <2>1, <2>2
<1>2. ASSUME NEW T \in SUBSET S, NEW x \in S \ T, T \in C PROVE T \cup {x} \in C
  <2>1. IsFiniteSet(T) /\ x \notin T
    BY FS_Subset
  <2>2. Sum(f, T \cup {x}) = f[x] + Sum(f, T) /\ Cardinality(T \cup {x}) = Cardinality(T) + 1
    BY <2>1, SumAdds, FS_AddElement
  <2>3. PICK F, y \in Int : F = Sum(f, T) /\ y = f[x] /\ y <= b
    BY <2>1, SumType
  <2>4. PICK k \in Nat : k = Cardinality(T)
    BY <2>1, FS_CardinalityType
  <2>5. b * (k + 1) = b * k + b * 1 /\ b * 1 = b /\ b * k \in Int
    BY Distributes
  <2>6. F <= b * k
    BY <1>2, <2>3, <2>4
  <2>7. y + F <= b * (k + 1)
    BY <2>3, <2>5, <2>6
  <2> QED  BY <2>2, <2>3, <2>4, <2>7
<1> HIDE DEF C
<1>3. S \in C
  BY <1>1, <1>2, ByElement
<1> QED  BY <1>3 DEF C

LEMMA Divides ==
    ASSUME NEW a \in Nat, NEW b \in Nat, b > 0
    PROVE  a \div b \in Nat /\ a % b \in 0..b - 1 /\ 1 * a = b * (a \div b) + (a % b)
OBVIOUS

(* Of numbers that are 0 or less than b and add up to b times k, no less   *)
(* than k are not 0.                                                       *)
LEMMA EnoughLoss ==
    ASSUME NEW S, IsFiniteSet(S), NEW f, NEW b \in Nat, b > 0, NEW k \in Int,
           \A x \in S : f[x] \in 0..b - 1, Sum(f, S) = b * k
    PROVE  /\ k \in Nat /\ Cardinality({x \in S : f[x] > 0}) \in Nat
           /\ k <= Cardinality({x \in S : f[x] > 0})
<1> DEFINE P == {x \in S : f[x] > 0}
           Z == {x \in S : ~(f[x] > 0)}
<1>1. IsFiniteSet(P) /\ IsFiniteSet(Z) /\ P \cap Z = {} /\ S = P \cup Z
  BY FS_Subset
<1>2. \A x \in P \cup Z : f[x] \in Int
  BY <1>1
<1>3. Sum(f, S) = Sum(f, P) + Sum(f, Z)
  <2> HIDE DEF P, Z
  <2> QED  BY <1>1, <1>2, SumParts
<1>4. Sum(f, Z) <= 0 * Cardinality(Z)
  <2>1. \A x \in Z : f[x] \in Int /\ f[x] <= 0
    OBVIOUS
  <2> HIDE DEF Z
  <2> QED  BY <1>1, <2>1, SumIsBelow
<1>5. Sum(f, P) <= b * Cardinality(P)
  <2>1. \A x \in P : f[x] \in Int /\ f[x] <= b
    OBVIOUS
  <2> HIDE DEF P
  <2> QED  BY <1>1, <2>1, SumIsBelow
<1>6. Sum(f, S) \in Nat
  <2>1. \A x \in S : f[x] \in Nat
    OBVIOUS
  <2> QED  BY <2>1, SumNat
<1>7. PICK p \in Nat : p = Cardinality(P)
  BY <1>1, FS_CardinalityType
<1>8. PICK F, G \in Int : F = Sum(f, P) /\ G = Sum(f, Z)
  <2>1. \A x \in P : f[x] \in Int
    BY <1>2
  <2>2. \A x \in Z : f[x] \in Int
    BY <1>2
  <2> HIDE DEF P, Z
  <2> QED  BY <1>1, <2>1, <2>2, SumType
<1>9. 0 * Cardinality(Z) = 0
  BY <1>1, FS_CardinalityType
<1> HIDE DEF P, Z
<1>10. b * k <= b * p /\ 0 <= b * k
  <2>1. b * k = F + G /\ G <= 0 /\ F <= b * p /\ b * p \in Int /\ 0 <= b * k
    BY <1>3, <1>4, <1>5, <1>6, <1>7, <1>8, <1>9
  <2> QED  BY <1>8, <2>1
<1>11. 0 <= k
  <2>1. CASE k < 0
    <3>1. PICK j \in Nat : k = -1 - j
      <4>1. -1 - k \in Nat /\ k = -1 - (-1 - k)
        BY <2>1
      <4> QED  BY <4>1
    <3>2. b * k = b * (-1) - b * j /\ b * (-1) = -b /\ b * j \in Nat
      BY <3>1, Distributes
    <3> QED  BY <1>10, <3>2
  <2> QED  BY <2>1
<1>12. k <= p
  <2>1. CASE k > p
    <3>1. PICK j \in Nat : k = p + 1 + j
      <4>1. k - p - 1 \in Nat /\ k = p + 1 + (k - p - 1)
        BY <2>1
      <4> QED  BY <4>1
    <3>2. b * k = b * p + b * (1 + j) /\ b * (1 + j) = b * 1 + b * j /\ b * 1 = b /\ b * j \in Nat /\ b * p \in Nat
      <4>1. k = p + (1 + j) /\ 1 + j \in Int
        BY <3>1
      <4> QED  BY <4>1, Distributes
    <3> QED  BY <1>10, <3>2
  <2> QED  BY <2>1
<1> QED  BY <1>7, <1>11, <1>12 DEF P

-----------------------------------------------------------------------------
(***************************************************************************)
(* Tables: what each row adds up to.                                       *)
(***************************************************************************)
(* By loss, then by place.                                                 *)
ByLoss(S, loss) == {p \in S \X S : loss[p[1]] > loss[p[2]] \/ (loss[p[1]] = loss[p[2]] /\ p[1] < p[2])}

LEMMA LossOrders ==
    ASSUME NEW S, S \subseteq Int, NEW loss, \A i \in S : loss[i] \in Int
    PROVE  Orders(ByLoss(S, loss), S)
<1>1. \A i, j \in S : <<i, j>> \in ByLoss(S, loss) <=> loss[i] > loss[j] \/ (loss[i] = loss[j] /\ i < j)
  BY DEF ByLoss
<1>2. \A i \in S : <<i, i>> \notin ByLoss(S, loss)
  BY <1>1
<1>3. \A i, j \in S : i = j \/ <<i, j>> \in ByLoss(S, loss) \/ <<j, i>> \in ByLoss(S, loss)
  <2> SUFFICES ASSUME NEW i \in S, NEW j \in S, i # j
               PROVE  <<i, j>> \in ByLoss(S, loss) \/ <<j, i>> \in ByLoss(S, loss)
    OBVIOUS
  <2>1. PICK k, l \in Int : k = loss[i] /\ l = loss[j]
    OBVIOUS
  <2>2. i < j \/ j < i
    OBVIOUS
  <2> QED  BY <1>1, <2>1, <2>2
<1>4. \A i, j, k \in S : <<i, j>> \in ByLoss(S, loss) /\ <<j, k>> \in ByLoss(S, loss)
                           => <<i, k>> \in ByLoss(S, loss)
  BY <1>1
<1> QED  BY <1>2, <1>3, <1>4 DEF Orders

(* One that lost nothing comes after all that did.                         *)
LEMMA LossComesFirst ==
    ASSUME NEW S, IsFiniteSet(S), NEW loss, \A i \in S : loss[i] \in Nat, NEW i \in S, loss[i] = 0
    PROVE  Cardinality({j \in S : loss[j] > 0}) <= Place(S, ByLoss(S, loss), i)
<1> DEFINE P == {j \in S : loss[j] > 0}
           A == Ahead(S, ByLoss(S, loss), i)
<1>1. P \subseteq A
  BY DEF Ahead, ByLoss
<1>2. IsFiniteSet(A)
  <2>1. A \subseteq S
    BY DEF Ahead
  <2> HIDE DEF A
  <2> QED  BY <2>1, FS_Subset
<1> HIDE DEF P, A
<1>3. Cardinality(P) <= Cardinality(A)
  BY <1>1, <1>2, FS_Subset
<1> QED  BY <1>3 DEF P, A, Place

(* Largest remainders: whatever is floored away is given back, a unit each *)
(* to those who lost most.                                                 *)
Floored(S, v, T, units, loss) ==
    \A i \in S : units[i] = (Scale * v[i]) \div T /\ loss[i] = (Scale * v[i]) % T
Given(S, units, loss, bonus) ==
    \A i \in S : bonus[i] = IF Place(S, ByLoss(S, loss), i) < Scale - Sum(units, S) THEN 1 ELSE 0
Totalled(S, s, units, bonus) == \A i \in S : s[i] = units[i] + bonus[i]
Within(S, v, T, s) ==
    \A i \in S : s[i] \in Int /\ -T < s[i] * T - Scale * v[i] /\ s[i] * T - Scale * v[i] < T
LEMMA UnitsAreShared ==
    ASSUME NEW S, S \subseteq Int, IsFiniteSet(S), NEW v, \A i \in S : v[i] \in Nat,
           NEW T \in Nat, T = Sum(v, S), T > 0,
           NEW units, NEW loss, Floored(S, v, T, units, loss),
           NEW bonus, Given(S, units, loss, bonus),
           NEW s, Totalled(S, s, units, bonus)
    PROVE  Sum(s, S) = Scale /\ Within(S, v, T, s)
<1> DEFINE R == ByLoss(S, loss)
           P == {j \in S : loss[j] > 0}
<1>1. Scale \in Nat
  BY ChartsAssumption
<1>2. ASSUME NEW i \in S
      PROVE  /\ units[i] \in Nat /\ loss[i] \in 0..T - 1 /\ Scale * v[i] \in Nat
             /\ Scale * v[i] = T * units[i] + loss[i]
  <2>1. PICK a \in Nat : a = Scale * v[i]
    BY <1>1
  <2>2. units[i] = a \div T /\ loss[i] = a % T
    BY <2>1 DEF Floored
  <2>3. units[i] \in Nat /\ loss[i] \in 0..T - 1 /\ 1 * a = T * units[i] + loss[i]
    BY <2>2, Divides
  <2> QED  BY <2>1, <2>3
<1>3. PICK U \in Int : U = Sum(units, S)
  <2>1. \A i \in S : units[i] \in Int
    BY <1>2
  <2>2. Sum(units, S) \in Int
    BY <2>1, SumType
  <2> QED  BY <2>2
<1>4. PICK owed \in Int : owed = Scale - U
  BY <1>1
<1>5. Sum(loss, S) = T * owed
  <2>1. Scale * Sum(v, S) = T * Sum(units, S) + Sum(loss, S) /\ Sum(loss, S) \in Int
    <3>1. Linear(S, v, units, loss, Scale, T)
      BY <1>2 DEF Linear
    <3> QED  BY <1>1, <3>1, SumIsLinear
  <2>2. T * (Scale - U) = T * Scale - T * U /\ T * Scale = Scale * T
    BY <1>1, <1>3, Distributes
  <2>3. PICK a, b, c \in Int : a = Scale * T /\ b = T * U /\ c = Sum(loss, S)
    BY <1>1, <1>3, <2>1
  <2>4. a = b + c /\ T * owed = a - b
    BY <1>3, <1>4, <2>1, <2>2, <2>3
  <2> QED  BY <2>3, <2>4
<1>6. owed \in Nat /\ Cardinality(P) \in Nat /\ owed <= Cardinality(P)
  <2>1. \A i \in S : loss[i] \in 0..T - 1
    BY <1>2
  <2> QED  BY <1>4, <1>5, <2>1, EnoughLoss
<1>7. Orders(R, S)
  <2>1. \A i \in S : loss[i] \in Int
    BY <1>2
  <2> QED  BY <2>1, LossOrders
<1>8. owed \in 0..Cardinality(S)
  <2>1. P \subseteq S
    OBVIOUS
  <2>2. Cardinality(P) <= Cardinality(S) /\ Cardinality(S) \in Nat
    BY <2>1, FS_Subset, FS_CardinalityType
  <2> QED  BY <1>6, <2>2
<1>9. \A i \in S : Place(S, R, i) \in Nat
  BY <1>7, PlacesAreAll
<1>10. \A i \in S : bonus[i] = IF Place(S, R, i) < owed THEN 1 ELSE 0
  BY <1>3, <1>4 DEF Given
<1>11. Sum(bonus, S) = owed
  <2>1. Sum(bonus, S) = Cardinality({i \in S : bonus[i] = 1})
    BY <1>10, SumOfOnes
  <2>2. {i \in S : bonus[i] = 1} = {i \in S : Place(S, R, i) < owed}
    <3> HIDE DEF R
    <3>1. \A i \in S : bonus[i] = 1 <=> Place(S, R, i) < owed
      BY <1>10
    <3> QED  BY <3>1
  <2>3. Cardinality({i \in S : Place(S, R, i) < owed}) = owed
    BY <1>7, <1>8, PlacesBelow
  <2> QED  BY <2>1, <2>2, <2>3
<1>12. \A i \in S : bonus[i] \in {0, 1} /\ (bonus[i] = 1 => loss[i] > 0)
  <2> SUFFICES ASSUME NEW i \in S, bonus[i] = 1, ~(loss[i] > 0) PROVE FALSE
    BY <1>10
  <2>1. loss[i] = 0
    BY <1>2
  <2>2. Cardinality(P) <= Place(S, R, i)
    <3>1. \A j \in S : loss[j] \in Nat
      BY <1>2
    <3> QED  BY <2>1, <3>1, LossComesFirst
  <2>3. Place(S, R, i) < owed
    BY <1>10
  <2> QED  BY <1>6, <1>9, <2>2, <2>3
<1> HIDE DEF R, P
<1>13. Sum(s, S) = Scale
  <2>1. Linear(S, s, units, bonus, 1, 1)
    BY <1>2, <1>12 DEF Linear, Totalled
  <2>2. Sum(s, S) \in Int /\ 1 * Sum(s, S) = 1 * Sum(units, S) + Sum(bonus, S)
    BY <2>1, SumIsLinear
  <2> QED  BY <1>1, <1>3, <1>4, <1>11, <2>2
<1>14. ASSUME NEW i \in S
       PROVE  s[i] \in Int /\ -T < s[i] * T - Scale * v[i] /\ s[i] * T - Scale * v[i] < T
  <2>1. PICK u, l, b \in Int : u = units[i] /\ l = loss[i] /\ b = bonus[i]
    BY <1>2, <1>12
  <2>2. 0 <= l /\ l < T /\ (b = 0 \/ (b = 1 /\ l > 0))
    BY <1>2, <1>12, <2>1
  <2>3. s[i] = u + b
    BY <2>1 DEF Totalled
  <2>4. PICK Tu \in Int : Tu = T * u
    BY <2>1
  <2>5. PICK Sv \in Int : Sv = Scale * v[i] /\ Sv = Tu + l
    <3>1. Scale * v[i] = T * units[i] + loss[i] /\ Scale * v[i] \in Int
      BY <1>2
    <3>2. Scale * v[i] = Tu + l
      BY <2>1, <2>4, <3>1
    <3> QED  BY <3>1, <3>2
  <2>6. s[i] * T = Tu + T * b
    BY <2>1, <2>3, <2>4, Distributes
  <2>7. PICK Tb \in Int : Tb = T * b
    BY <2>1
  <2>8. (Tb = 0 /\ b = 0) \/ (Tb = T /\ b = 1)
    BY <2>2, <2>7
  <2>9. s[i] * T - Scale * v[i] = Tb - l
    BY <2>1, <2>5, <2>6, <2>7
  <2>10. -T < Tb - l /\ Tb - l < T
    BY <2>1, <2>2, <2>7, <2>8
  <2> QED  BY <2>3, <2>9, <2>10
<1> QED  BY <1>13, <1>14 DEF Within

LEMMA SharesAddUp ==
    ASSUME NEW G, GroupsOk(G), NEW t, Lists(t, G), Weight(G) > 0
    PROVE  /\ DOMAIN Shares(t) = DOMAIN t /\ SumFunction(Shares(t)) = Scale
           /\ \A i \in DOMAIN t :
                 LET err == Shares(t)[i] * Weight(G) - Scale * t[i].totals.tokens
                 IN  -Weight(G) < err /\ err < Weight(G)
<1> DEFINE S == DOMAIN t
           v == [i \in S |-> TokensIn(t[i])]
<1>1. S \subseteq Int /\ IsFiniteSet(S) /\ G = {t[i] : i \in S} /\ ToSet(t) = G
  BY ListOfAll DEF Lists
<1>2. \A i \in S : v[i] = t[i].totals.tokens /\ v[i] \in Nat
  <2>1. \A i \in S : TokensIn(t[i]) \in Nat
    BY ListOfAll DEF GroupsOk
  <2> QED  BY <2>1 DEF TokensIn
<1>3. PICK T \in Nat : T = Weight(G) /\ T = Sum(v, S) /\ T > 0
  <2>1. Weight({t[i] : i \in S}) = Sum(v, S) /\ Weight({t[i] : i \in S}) \in Nat
    BY WeightByRow
  <2> HIDE DEF v, S
  <2> QED  BY <1>1, <2>1
<1> DEFINE units == [i \in S |-> (Scale * t[i].totals.tokens) \div T]
           loss == [i \in S |-> (Scale * t[i].totals.tokens) % T]
           owed == Scale - SumFunction(units)
           Rank(i) == Cardinality({j \in S : loss[j] > loss[i] \/ (loss[j] = loss[i] /\ j < i)})
           bonus == [i \in S |-> IF Rank(i) < owed THEN 1 ELSE 0]
           s == [i \in S |-> units[i] + IF Rank(i) < owed THEN 1 ELSE 0]
<1>4. Shares(t) = s
  BY <1>1, <1>3 DEF Shares
<1>5. Floored(S, v, T, units, loss)
  BY <1>2 DEF Floored
<1>6. owed = Scale - Sum(units, S)
  <2>1. DOMAIN units = S
    OBVIOUS
  <2> HIDE DEF units
  <2> QED  BY <2>1, SumsOver
<1>7. \A i \in S : Rank(i) = Place(S, ByLoss(S, loss), i)
  <2> SUFFICES ASSUME NEW i \in S PROVE Rank(i) = Place(S, ByLoss(S, loss), i)
    OBVIOUS
  <2> HIDE DEF loss
  <2>1. {j \in S : loss[j] > loss[i] \/ (loss[j] = loss[i] /\ j < i)} = Ahead(S, ByLoss(S, loss), i)
    BY DEF Ahead, ByLoss
  <2> QED  BY <2>1 DEF Place
<1>8. Given(S, units, loss, bonus)
  <2> HIDE DEF loss, units, owed, Rank
  <2> QED  BY <1>6, <1>7 DEF Given
<1>9. Totalled(S, s, units, bonus)
  BY DEF Totalled
<1>10. DOMAIN s = S
  OBVIOUS
<1> HIDE DEF v, units, loss, bonus, s, owed, S
<1>11. Sum(s, S) = Scale /\ Within(S, v, T, s)
  BY <1>1, <1>2, <1>3, <1>5, <1>8, <1>9, UnitsAreShared
<1>12. SumFunction(s) = Scale
  BY <1>10, <1>11, SumsOver
<1> QED  BY <1>2, <1>3, <1>4, <1>10, <1>11, <1>12 DEF S, Within

LEMMA SumOfZeros ==
    ASSUME NEW S, IsFiniteSet(S), NEW f, \A x \in S : f[x] = 0
    PROVE  Sum(f, S) = 0
<1>1. \A x \in S : f[x] \in Nat /\ f[x] \in Int /\ f[x] <= 0
  OBVIOUS
<1>2. Sum(f, S) \in Nat
  BY <1>1, SumNat
<1>3. Sum(f, S) <= 0 * Cardinality(S)
  BY <1>1, SumIsBelow
<1>4. 0 * Cardinality(S) = 0
  BY FS_CardinalityType
<1> QED  BY <1>2, <1>3, <1>4

LEMMA NoTokens == Tokens({}) = 0 /\ RowsOk({})
<1>1. RowsOk({})
  BY FS_EmptySet DEF RowsOk
<1> QED  BY <1>1, TokensAreSum, SumEmpty

(* A member's row of the table.                                            *)
LEMMA RowOf ==
    ASSUME NEW G, GroupsOk(G), NEW t, Lists(t, G), NEW m
    PROVE  /\ \A i \in DOMAIN t : t[i].key = m => Of(t, m) = TokensIn(t[i])
           /\ (\A i \in DOMAIN t : t[i].key # m) => Of(t, m) = 0
<1> DEFINE S == DOMAIN t
           f == [i \in S |-> IF t[i].key = m THEN t[i].totals.tokens ELSE 0]
<1>1. IsFiniteSet(S) /\ \A i \in S : t[i] \in G
  BY ListOfAll
<1>2. \A i \in S : f[i] = IF t[i].key = m THEN TokensIn(t[i]) ELSE 0
  BY DEF TokensIn
<1>3. \A i, j \in S : t[i].key = t[j].key => i = j
  BY <1>1 DEF Lists, GroupsOk
<1>4. Of(t, m) = Sum(f, S)
  <2>1. Of(t, m) = SumFunction(f) /\ DOMAIN f = S
    BY DEF Of
  <2> HIDE DEF f
  <2> QED  BY <2>1, SumsOver
<1>5. \A i \in S : TokensIn(t[i]) \in Nat
  BY <1>1 DEF GroupsOk
<1> HIDE DEF f, S
<1>6. ASSUME NEW i \in S, t[i].key = m PROVE Of(t, m) = TokensIn(t[i])
  <2>1. IsFiniteSet(S \ {i})
    BY <1>1, FS_Subset
  <2>2. Sum(f, S \ {i}) = 0
    <3>1. \A j \in S \ {i} : f[j] = 0
      BY <1>2, <1>3, <1>6
    <3> QED  BY <2>1, <3>1, SumOfZeros
  <2>3. Sum(f, S) = f[i] + Sum(f, S \ {i})
    <3>1. \A j \in S : f[j] \in Int
      BY <1>2, <1>5
    <3> QED  BY <1>1, <3>1, SumTakes
  <2>4. PICK x \in Nat : x = TokensIn(t[i]) /\ f[i] = x
    BY <1>2, <1>5, <1>6
  <2> QED  BY <1>4, <2>2, <2>3, <2>4
<1>7. ASSUME \A i \in S : t[i].key # m PROVE Of(t, m) = 0
  <2>1. \A j \in S : f[j] = 0
    BY <1>2, <1>7
  <2> QED  BY <1>1, <1>4, <2>1, SumOfZeros
<1> QED  BY <1>6, <1>7 DEF S

MemberRows(db, q, m) == {r \in Sel(db, q) : r.member = m}

LEMMA ModelsWeigh ==
    ASSUME NEW db, NEW q, DbOk(db)
    PROVE  /\ ModelUsage(db.rows, q) = ModelGroups(Sel(db, q))
           /\ \A m : Weight(ModelUsage({r \in db.rows : r.member = m}, q)) = Tokens(MemberRows(db, q, m))
           /\ \A m : RowsOk(MemberRows(db, q, m))
<1>1. RowsOk(Sel(db, q))
  BY SelectedOk
<1>2. \A T : ModelUsage(T, q) = GroupBy(Selected(T, q), LAMBDA r : r.model)
  BY DEF ModelUsage
<1>3. ModelUsage(db.rows, q) = ModelGroups(Sel(db, q))
  BY <1>1, <1>2, ModelGroupsOk DEF Sel
<1>4. ASSUME NEW m
      PROVE  /\ Weight(ModelUsage({r \in db.rows : r.member = m}, q)) = Tokens(MemberRows(db, q, m))
             /\ RowsOk(MemberRows(db, q, m))
  <2>1. Selected({r \in db.rows : r.member = m}, q) = MemberRows(db, q, m)
    BY DEF Selected, MemberRows, Sel
  <2>2. RowsOk(MemberRows(db, q, m))
    BY <1>1, TokensOfPart DEF MemberRows
  <2> QED  BY <1>2, <2>1, <2>2, ModelGroupsOk
<1> QED  BY <1>3, <1>4

(* A member's page agrees with the member's row.                           *)
LEMMA DetailAgrees ==
    ASSUME NEW db, NEW q, DbOk(db), NEW m \in DOMAIN db.revoked
    PROVE  /\ MemberDetail(db, q, m).totals.tokens = Of(MemberUsage(db, q), m)
           /\ Weight(MemberDetail(db, q, m).models) = MemberDetail(db, q, m).totals.tokens
<1> DEFINE t == MemberUsage(db, q)
           G == MemberGroups(db, q)
           own == {i \in DOMAIN t : t[i].key = m}
           usage == IF own = {} THEN Totals({}) ELSE t[CHOOSE i \in own : TRUE].totals
           d == MemberDetail(db, q, m)
<1>1. d.totals = usage /\ d.models = ModelUsage({r \in db.rows : r.member = m}, q)
  BY DEF MemberDetail
<1>2. /\ t = Heaviest(G) /\ GroupsOk(G)
      /\ \A g \in G : TokensIn(g) = Tokens({r \in Sel(db, q) : r.member = g.key})
      /\ (\E g \in G : g.key = m) \/ {r \in Sel(db, q) : r.member = m} = {}
  BY MemberTable
<1> HIDE DEF G, t
<1>3. Lists(t, G)
  BY <1>2, HeaviestLists
<1>4. (\A i \in DOMAIN t : t[i] \in G) /\ \A g \in G : \E i \in DOMAIN t : t[i] = g
  BY <1>3, ListOfAll DEF Lists
<1>5. Weight(d.models) = Tokens(MemberRows(db, q, m))
  BY <1>1, ModelsWeigh
<1>6. CASE own = {}
  <2>1. \A i \in DOMAIN t : t[i].key # m
    BY <1>6
  <2>2. MemberRows(db, q, m) = {}
    BY <1>2, <1>4, <2>1 DEF MemberRows
  <2>3. d.totals.tokens = Tokens({})
    BY <1>1, <1>6 DEF Totals
  <2>4. Of(t, m) = 0
    BY <1>2, <1>3, <2>1, RowOf
  <2> QED  BY <1>5, <2>2, <2>3, <2>4, NoTokens DEF t
<1>7. CASE own # {}
  <2>1. PICK i \in own : i = CHOOSE j \in own : TRUE
    BY <1>7
  <2>2. i \in DOMAIN t /\ t[i].key = m /\ t[i] \in G
    BY <1>4
  <2>3. d.totals.tokens = TokensIn(t[i])
    BY <1>1, <1>7, <2>1 DEF TokensIn
  <2>4. Of(t, m) = TokensIn(t[i])
    BY <1>2, <1>3, <2>2, RowOf
  <2>5. TokensIn(t[i]) = Tokens(MemberRows(db, q, m))
    BY <1>2, <2>2 DEF MemberRows
  <2> QED  BY <1>5, <2>3, <2>4, <2>5 DEF t
<1> QED  BY <1>6, <1>7

LEMMA TablesAddUp ==
    ASSUME NEW db, NEW q, DbOk(db)
    PROVE  TableAddsUp(db, q)
<1> DEFINE s == Summary(db, q)
           T == Tokens(Sel(db, q))
           G == MemberGroups(db, q)
           models == Models(db, q).models
           shares == Shares(s.members)
<1>1. /\ s.totals.tokens = T /\ s.members = MemberUsage(db, q)
      /\ s.sources = SourceUsage(db, q.range)
  BY DEF Summary, Totals, Sel
<1>2. /\ MemberUsage(db, q) = Heaviest(G) /\ GroupsOk(G) /\ Weight(G) = T
  BY MemberTable
<1>3. models = Heaviest(ModelGroups(Sel(db, q)))
  BY ModelsWeigh DEF Models
<1>4. GroupsOk(ModelGroups(Sel(db, q))) /\ Weight(ModelGroups(Sel(db, q))) = T
  BY SelectedOk, ModelGroupsOk
<1>5. Profiles(db, q).profiles = ProfileUsage(db, q)
  BY DEF Profiles
<1>6. T \in Nat
  BY SelectedOk
<1>7. /\ Weight(s.sources) = Tokens(Sel(db, AllOf(q.range))) /\ Weight(s.sources) >= T
      /\ q.filter.group = "all" /\ q.filter.source = NULL => Weight(s.sources) = T
  BY <1>1, SourcesWeigh, AllIsMore
<1>8. Weight(Profiles(db, q).profiles) = T
  BY <1>5, ProfilesWeigh
<1> HIDE DEF s, models, G, T
<1>9. Weight(ToSet(s.members)) = T
  BY <1>1, <1>2, TableWeighs
<1>10. SumFunction(Bars(models)) = T /\ Len(Bars(models)) <= MaxBars
  BY <1>3, <1>4, HeaviestLists, BarsAddUp
<1>11. Lists(s.members, G)
  BY <1>1, <1>2, HeaviestLists
<1>12. ASSUME T > 0
       PROVE  /\ SumFunction(shares) = Scale
              /\ \A i \in DOMAIN shares :
                    LET err == shares[i] * T - Scale * s.members[i].totals.tokens
                    IN  -T < err /\ err < T
  <2>1. Weight(G) > 0
    BY <1>2, <1>12
  <2>2. /\ DOMAIN shares = DOMAIN s.members /\ SumFunction(shares) = Scale
        /\ \A i \in DOMAIN s.members :
                 LET err == Shares(s.members)[i] * Weight(G) - Scale * s.members[i].totals.tokens
                 IN  -Weight(G) < err /\ err < Weight(G)
    BY <1>2, <1>11, <2>1, SharesAddUp
  <2> QED  BY <1>2, <2>2
<1>13. ASSUME NEW m \in DOMAIN db.revoked
       PROVE  LET d == MemberDetail(db, q, m)
              IN  d.totals.tokens = Of(s.members, m) /\ Weight(d.models) = d.totals.tokens
  BY <1>1, DetailAgrees
<1> HIDE DEF shares
<1>14. /\ Weight(ToSet(s.members)) = s.totals.tokens
       /\ q.filter.group = "all" /\ q.filter.source = NULL => Weight(s.sources) = s.totals.tokens
       /\ Weight(s.sources) >= s.totals.tokens
       /\ SumFunction(Bars(models)) = s.totals.tokens /\ Len(Bars(models)) <= MaxBars
       /\ Weight(Profiles(db, q).profiles) = s.totals.tokens
  BY <1>1, <1>7, <1>8, <1>9, <1>10
<1>15. s.totals.tokens > 0 =>
              /\ SumFunction(shares) = Scale
              /\ \A i \in DOMAIN shares :
                    LET err == shares[i] * s.totals.tokens - Scale * s.members[i].totals.tokens
                    IN  -s.totals.tokens < err /\ err < s.totals.tokens
  BY <1>1, <1>12
<1> QED  BY <1>13, <1>14, <1>15 DEF TableAddsUp, s, models, shares

-----------------------------------------------------------------------------
(***************************************************************************)
(* Charts: what each bucket adds up to.                                    *)
(***************************************************************************)
(* Buckets.                                                                *)
LEMMA Quotient ==
    ASSUME NEW a \in Int, NEW w \in Nat, w > 0
    PROVE  a \div w \in Int /\ (a \div w) * w \in Int /\ (a \div w) * w <= a /\ a < (a \div w) * w + w
OBVIOUS

LEMMA QuotientAtLeast ==
    ASSUME NEW a \in Int, NEW w \in Nat, w > 0, NEW k \in Int, k * w <= a
    PROVE  k <= a \div w
<1>1. PICK d \in Int : d = a \div w /\ d * w \in Int /\ a < d * w + w
  BY Quotient
<1>2. CASE k > d
  <2>1. PICK j \in Nat : k = d + 1 + j
    <3>1. k - d - 1 \in Nat /\ k = d + 1 + (k - d - 1)
      BY <1>2
    <3> QED  BY <3>1
  <2>2. w * k = w * d + w * (1 + j) /\ w * (1 + j) = w * 1 + w * j /\ w * 1 = w
    <3>1. k = d + (1 + j) /\ 1 + j \in Int
      BY <2>1
    <3> QED  BY <3>1, Distributes
  <2>3. w * j >= 0 /\ w * j \in Int
    OBVIOUS
  <2>4. w * k = k * w /\ w * d = d * w
    OBVIOUS
  <2>5. PICK x, y, z \in Int : x = k * w /\ y = d * w /\ z = w * j
    BY <1>1, <2>3, <2>4
  <2> QED  BY <1>1, <2>2, <2>3, <2>4, <2>5
<1> QED  BY <1>1, <1>2

LEMMA QuotientInOrder ==
    ASSUME NEW a \in Int, NEW b \in Int, a <= b, NEW w \in Nat, w > 0
    PROVE  a \div w <= b \div w
<1>1. PICK k \in Int : k = a \div w /\ k * w \in Int /\ k * w <= a
  BY Quotient
<1>2. k * w <= b
  BY <1>1
<1> QED  BY <1>1, <1>2, QuotientAtLeast

Whole(range, width, offset) == (range.to - BucketStart(range.from, width, offset) + width - 1) \div width

(* The grid has every bucket of its range, once, unless it is cut short.   *)
GridOk(grid, range, width, offset) ==
    /\ IsFiniteSet(DOMAIN grid)
    /\ \A i, j \in DOMAIN grid : grid[i] = grid[j] => i = j
    /\ Whole(range, width, offset) <= MaxGrid =>
          \A t \in range.from .. (range.to - 1) :
             \E i \in DOMAIN grid : grid[i] = BucketStart(t, width, offset)
LEMMA GridCovers ==
    ASSUME NEW range, range.from \in Int, range.to \in Int, NEW width \in Nat, width > 0, NEW offset \in Int
    PROVE  GridOk(BucketGrid(range, width, offset), range, width, offset)
<1> DEFINE grid == BucketGrid(range, width, offset)
<1>1. PICK from, to \in Int : from = range.from /\ to = range.to
  OBVIOUS
<1>2. PICK a \in Int : a = (from + offset) \div width
  BY Quotient
<1>3. PICK aw \in Int : aw = a * width
  OBVIOUS
<1>4. PICK first \in Int : first = aw - offset /\ first = BucketStart(range.from, width, offset)
  BY <1>1, <1>2, <1>3 DEF BucketStart
<1>5. PICK whole \in Int : /\ whole = (to - first + width - 1) \div width
                           /\ whole = Whole(range, width, offset)
  <2>1. to - first + width - 1 \in Int
    OBVIOUS
  <2>2. (to - first + width - 1) \div width \in Int
    BY <2>1, Quotient
  <2> QED  BY <1>1, <1>4, <2>2 DEF Whole
<1>6. PICK n \in Int : n = IF whole < MaxGrid THEN whole ELSE MaxGrid
  BY ChartsAssumption
<1>7. grid = [i \in 1..n |-> first + (i - 1) * width]
  BY <1>1, <1>4, <1>5, <1>6 DEF BucketGrid, Whole
<1>8. DOMAIN grid = 1..n /\ \A i \in 1..n : grid[i] = first + (i - 1) * width
  BY <1>7
<1> HIDE DEF grid
<1>9. IsFiniteSet(1..n)
  <2>1. CASE n \in Nat
    BY <2>1, FS_Interval
  <2>2. CASE n \notin Nat
    <3>1. 1..n = {}
      BY <2>2
    <3> QED  BY <3>1, FS_EmptySet
  <2> QED  BY <2>1, <2>2
<1>10. \A i \in 1..n : grid[i] \in Int
  BY <1>8
<1>11. ASSUME NEW i \in 1..n, NEW j \in 1..n, grid[i] = grid[j] PROVE i = j
  <2>1. (i - 1) * width = (j - 1) * width
    <3>1. PICK x, y \in Int : x = (i - 1) * width /\ y = (j - 1) * width
      OBVIOUS
    <3>2. first + x = first + y
      BY <1>8, <1>11, <3>1
    <3> QED  BY <3>1, <3>2
  <2>2. PICK k \in Int, l \in Int : k = i - 1 /\ l = j - 1
    OBVIOUS
  <2>3. k * width = l * width => k = l
    OBVIOUS
  <2> QED  BY <2>1, <2>2, <2>3
<1>12. ASSUME whole <= MaxGrid, NEW t \in from .. (to - 1)
       PROVE  \E i \in 1..n : grid[i] = BucketStart(t, width, offset)
  <2>1. PICK u \in Int : u = t + offset /\ from + offset <= u
    OBVIOUS
  <2>2. PICK c \in Int : c = u \div width /\ c * width \in Int /\ c * width <= u /\ a <= c
    <3>1. from + offset \in Int
      OBVIOUS
    <3>2. (from + offset) \div width <= u \div width
      BY <2>1, <3>1, QuotientInOrder
    <3> QED  BY <1>2, <2>1, <3>2, Quotient
  <2>3. PICK i \in Nat : i = c - a + 1 /\ i >= 1
    <3>1. c - a + 1 \in Nat /\ c - a + 1 >= 1
      BY <2>2
    <3> QED  BY <3>1
  <2>4. PICK cw \in Int : cw = c * width
    BY <2>2
  <2>5. (i - 1) * width = cw - aw
    <3>1. width * (c - a) = width * c - width * a
      BY Distributes
    <3>2. width * c = cw /\ width * a = aw
      BY <1>3, <2>4
    <3>3. i - 1 = c - a /\ (i - 1) * width = width * (c - a)
      BY <2>3
    <3> QED  BY <3>1, <3>2, <3>3
  <2>6. i * width <= to - first + width - 1
    <3>1. width * ((i - 1) + 1) = width * (i - 1) + width * 1 /\ width * 1 = width
      BY Distributes
    <3>2. i * width = width * ((i - 1) + 1) /\ width * (i - 1) = (i - 1) * width
      OBVIOUS
    <3>3. i * width = cw - aw + width
      BY <2>5, <3>1, <3>2
    <3> QED  BY <1>4, <2>1, <2>2, <2>4, <3>3
  <2>7. i <= whole
    <3>1. to - first + width - 1 \in Int
      OBVIOUS
    <3> QED  BY <1>5, <2>6, <3>1, QuotientAtLeast
  <2>8. i \in 1..n
    BY <1>6, <1>12, <2>3, <2>7, ChartsAssumption
  <2>9. BucketStart(t, width, offset) = cw - offset
    BY <2>1, <2>2, <2>4 DEF BucketStart
  <2>10. grid[i] = first + (cw - aw)
    BY <1>8, <2>5, <2>8
  <2> QED  BY <1>4, <2>8, <2>9, <2>10
<1> QED  BY <1>1, <1>5, <1>8, <1>9, <1>11, <1>12 DEF grid, GridOk

(* A request whose range the grid covers.                                  *)
QOk(q) ==
    /\ q.range.from \in Int /\ q.range.to \in Int /\ q.offset \in Int
    /\ Whole(q.range, ResolveBucket(q.range), q.offset) <= MaxGrid
PointOf(q) == [r \in Row |-> <<BucketStart(r.at, ResolveBucket(q.range), q.offset), r.member>>]
Points(S, q) == Groups(S, PointOf(q), {PointOf(q)[r] : r \in S})
NamedGroups(S) == Groups(S, MemberOf, {r.member : r \in S})

LEMMA NamedGroupsOk ==
    ASSUME NEW S, RowsOk(S)
    PROVE  /\ GroupBy(S, LAMBDA r : r.member) = NamedGroups(S)
           /\ GroupsOk(NamedGroups(S)) /\ Weight(NamedGroups(S)) = Tokens(S)
           /\ \A g \in NamedGroups(S) : TokensIn(g) = Tokens({r \in S : r.member = g.key})
           /\ \A r \in S : \E g \in NamedGroups(S) : g.key = r.member
<1> DEFINE K == {r.member : r \in S}
<1>1. IsFiniteSet(S) /\ S \subseteq Row
  BY DEF RowsOk
<1>2. K = {MemberOf[r] : r \in S} /\ \A r \in S : MemberOf[r] \in K /\ MemberOf[r] = r.member
  BY <1>1 DEF MemberOf
<1>3. K \subseteq Names
  BY <1>1, AllNamed
<1>4. GroupBy(S, LAMBDA r : r.member) = {[key |-> k, totals |-> Totals({r \in S : r.member = k})] : k \in K}
  BY DEF GroupBy
<1> HIDE DEF K
<1>5. IsFiniteSet(K)
  BY <1>1, <1>2, ImageIsFinite
<1>6. /\ IsFiniteSet(Groups(S, MemberOf, K)) /\ Weight(Groups(S, MemberOf, K)) = Tokens(S)
      /\ \A g \in Groups(S, MemberOf, K) :
            g.key \in K /\ TokensIn(g) = Tokens(OfKey(S, MemberOf, g.key)) /\ TokensIn(g) \in Nat
      /\ \A f, g \in Groups(S, MemberOf, K) : f.key = g.key => f = g
      /\ \A k \in K : \E g \in Groups(S, MemberOf, K) : g.key = k
  <2>1. \A r \in S : MemberOf[r] \in K
    BY <1>2
  <2> QED  BY <1>5, <2>1, GroupsAddUp
<1>7. {[key |-> k, totals |-> Totals({r \in S : r.member = k})] : k \in K} = Groups(S, MemberOf, K)
  <2>1. \A k \in K : [key |-> k, totals |-> Totals({r \in S : r.member = k})] = Group(S, MemberOf, k)
    BY <1>1, KeysAre DEF Group
  <2> QED  BY <2>1 DEF Groups
<1>8. NamedGroups(S) = Groups(S, MemberOf, K)
  BY DEF NamedGroups, K
<1>9. GroupsOk(NamedGroups(S))
  BY <1>3, <1>6, <1>8 DEF GroupsOk
<1>10. \A g \in NamedGroups(S) : TokensIn(g) = Tokens({r \in S : r.member = g.key})
  BY <1>1, <1>6, <1>8, KeysAre
<1>11. \A r \in S : \E g \in NamedGroups(S) : g.key = r.member
  BY <1>2, <1>6, <1>8
<1> QED  BY <1>4, <1>6, <1>7, <1>8, <1>9, <1>10, <1>11

(* What a chart is drawn from.                                             *)
LEMMA ChartIs ==
    ASSUME NEW db, NEW q, DbOk(db)
    PROVE  LET ts == Timeseries(db, q)
               S == Sel(db, q)
           IN  /\ ts.range = q.range /\ ts.width = ResolveBucket(q.range) /\ ts.offset = q.offset
               /\ ts.members = Heaviest(NamedGroups(S)) /\ ts.points = Points(S, q)
<1> DEFINE S == Sel(db, q)
           w == ResolveBucket(q.range)
           J == {<<BucketStart(r.at, w, q.offset), r.member>> : r \in S}
           ts == Timeseries(db, q)
<1>1. RowsOk(S) /\ S \subseteq Row
  BY SelectedOk DEF RowsOk
<1>2. /\ ts.range = q.range /\ ts.width = w /\ ts.offset = q.offset
      /\ ts.members = TimeseriesMembers(S) /\ ts.points = TimeseriesPoints(S, w, q.offset)
  BY DEF Timeseries, Sel
<1> HIDE DEF ts, S
<1>3. TimeseriesMembers(S) = Heaviest(NamedGroups(S))
  BY <1>1, NamedGroupsOk DEF TimeseriesMembers
<1>4. TimeseriesPoints(S, w, q.offset)
        = {[key |-> k, totals |-> Totals({r \in S : <<BucketStart(r.at, w, q.offset), r.member>> = k})] : k \in J}
  BY DEF TimeseriesPoints, GroupBy
<1>5. \A r \in S : PointOf(q)[r] = <<BucketStart(r.at, w, q.offset), r.member>>
  BY <1>1 DEF PointOf
<1>6. J = {PointOf(q)[r] : r \in S}
  BY <1>5
<1>7. \A k : {r \in S : <<BucketStart(r.at, w, q.offset), r.member>> = k} = OfKey(S, PointOf(q), k)
  BY <1>5 DEF OfKey
<1> HIDE DEF J
<1>8. TimeseriesPoints(S, w, q.offset) = {Group(S, PointOf(q), k) : k \in J}
  <2>1. \A k \in J : [key |-> k, totals |-> Totals({r \in S : <<BucketStart(r.at, w, q.offset), r.member>> = k})]
                          = Group(S, PointOf(q), k)
    BY <1>7 DEF Group
  <2> QED  BY <1>4, <2>1
<1>9. TimeseriesPoints(S, w, q.offset) = Points(S, q)
  BY <1>6, <1>8 DEF Points, Groups
<1> QED  BY <1>2, <1>3, <1>9 DEF ts, S

LEMMA PointsOk ==
    ASSUME NEW S, RowsOk(S), NEW q
    PROVE  /\ IsFiniteSet(Points(S, q)) /\ Weight(Points(S, q)) = Tokens(S)
           /\ \A p \in Points(S, q) :
                 /\ TokensIn(p) = Tokens(OfKey(S, PointOf(q), p.key)) /\ TokensIn(p) \in Nat
                 /\ \E r \in S : p.key = PointOf(q)[r]
           /\ \A r \in S : \E p \in Points(S, q) : p.key = PointOf(q)[r]
           /\ \A p, o \in Points(S, q) : p.key = o.key => p = o
<1>1. PICK h : h = PointOf(q)
  OBVIOUS
<1>2. PICK K : K = {h[r] : r \in S}
  OBVIOUS
<1>3. IsFiniteSet(S)
  BY DEF RowsOk
<1>4. IsFiniteSet(K) /\ \A r \in S : h[r] \in K
  BY <1>2, <1>3, ImageIsFinite
<1>5. Points(S, q) = Groups(S, h, K)
  BY <1>1, <1>2 DEF Points
<1>6. /\ IsFiniteSet(Groups(S, h, K)) /\ Weight(Groups(S, h, K)) = Tokens(S)
      /\ \A g \in Groups(S, h, K) :
                 /\ g.key \in K /\ TokensIn(g) = Tokens(OfKey(S, h, g.key)) /\ TokensIn(g) \in Nat
      /\ \A f, g \in Groups(S, h, K) : f.key = g.key => f = g
      /\ \A k \in K : \E g \in Groups(S, h, K) : g.key = k
  BY <1>4, GroupsAddUp
<1>7. \A p \in Points(S, q) : \E r \in S : p.key = h[r]
  BY <1>2, <1>5, <1>6
<1>8. \A r \in S : \E p \in Points(S, q) : p.key = h[r]
  BY <1>4, <1>5, <1>6
<1>9. \A p \in Points(S, q) : TokensIn(p) = Tokens(OfKey(S, h, p.key)) /\ TokensIn(p) \in Nat
  BY <1>5, <1>6
<1>10. \A p, o \in Points(S, q) : p.key = o.key => p = o
  BY <1>5, <1>6
<1>11. IsFiniteSet(Points(S, q)) /\ Weight(Points(S, q)) = Tokens(S)
  BY <1>5, <1>6
<1> QED  BY <1>1, <1>7, <1>8, <1>9, <1>10, <1>11

(* Points in two ways: what is stacked adds up to them.                    *)
StackOf(P, B, K, hb, hk) ==
    [b \in B |-> [k \in K |-> Weight({p \in P : hb[p] = b /\ hk[p] = k})]]
LEMMA StackAddsUp ==
    ASSUME NEW P, IsFiniteSet(P), \A p \in P : TokensIn(p) \in Nat, NEW B, IsFiniteSet(B), NEW K, IsFiniteSet(K),
           NEW hb, NEW hk, \A p \in P : hb[p] \in B /\ hk[p] \in K
    PROVE  SumFunction([b \in B |-> SumFunction(StackOf(P, B, K, hb, hk)[b])]) = Weight(P)
<1> DEFINE w == [p \in P |-> TokensIn(p)]
           cell(b, k) == {p \in P : hb[p] = b /\ hk[p] = k}
           at(b) == {p \in P : hb[p] = b}
           row(b) == [k \in K |-> Weight(cell(b, k))]
           col == [b \in B |-> SumFunction(row(b))]
           sums == [b \in B |-> Sum(w, at(b))]
<1>1. \A p \in P : w[p] = TokensIn(p) /\ w[p] \in Int
  OBVIOUS
<1>2. ASSUME NEW T, T \subseteq P PROVE Weight(T) = Sum(w, T)
  <2>1. IsFiniteSet(T) /\ Weight(T) = Sum([g \in T |-> TokensIn(g)], T)
    BY <1>2, FS_Subset, WeightIsSum
  <2>2. \A g \in T : [h \in T |-> TokensIn(h)][g] = w[g]
    BY <1>2
  <2> HIDE DEF w
  <2> QED  BY <2>1, <2>2, SumAgrees
<1> HIDE DEF w
<1>3. ASSUME NEW b \in B PROVE SumFunction(row(b)) = Sum(w, at(b))
  <2> DEFINE A == at(b)
             v == [k \in K |-> Sum(w, {p \in A : hk[p] = k})]
  <2>1. A \subseteq P /\ IsFiniteSet(A)
    <3>1. A \subseteq P
      OBVIOUS
    <3> HIDE DEF A
    <3> QED  BY <3>1, FS_Subset
  <2>2. \A p \in A : w[p] \in Int /\ hk[p] \in K
    BY <1>1
  <2>3. \A k \in K : row(b)[k] = v[k]
    <3> SUFFICES ASSUME NEW k \in K PROVE row(b)[k] = v[k]
      OBVIOUS
    <3>1. {p \in A : hk[p] = k} = cell(b, k)
      OBVIOUS
    <3>2. cell(b, k) \subseteq P
      OBVIOUS
    <3>3. Weight(cell(b, k)) = Sum(w, cell(b, k))
      BY <1>2, <3>2
    <3> QED  BY <3>1, <3>3
  <2>4. Sum(w, A) = Sum(v, K)
    <3> HIDE DEF A
    <3> QED  BY <2>1, <2>2, SumGroups
  <2>5. DOMAIN row(b) = K
    OBVIOUS
  <2> HIDE DEF v, row, A
  <2>6. Sum(row(b), K) = Sum(v, K)
    BY <2>3, SumAgrees
  <2>7. SumFunction(row(b)) = Sum(w, A)
    BY <2>4, <2>5, <2>6, SumsOver
  <2> QED  BY <2>7 DEF A
<1>4. \A b \in B : col[b] = sums[b]
  <2> HIDE DEF row, at
  <2> QED  BY <1>3
<1>5. DOMAIN col = B
  OBVIOUS
<1>6. Sum(w, P) = Sum(sums, B)
  <2>1. \A p \in P : w[p] \in Int /\ hb[p] \in B
    BY <1>1
  <2>2. Sum(w, P) = Sum([b \in B |-> Sum(w, {p \in P : hb[p] = b})], B)
    BY <2>1, SumGroups
  <2> QED  BY <2>2
<1>7. SumFunction(col) = Weight(P)
  <2>1. Weight(P) = Sum(w, P)
    BY <1>2
  <2> HIDE DEF col, sums
  <2>2. Sum(col, B) = Sum(sums, B)
    BY <1>4, SumAgrees
  <2> QED  BY <1>5, <1>6, <2>1, <2>2, SumsOver
<1>8. \A b \in B : StackOf(P, B, K, hb, hk)[b] = row(b)
  BY DEF StackOf
<1> HIDE DEF row
<1> QED  BY <1>7, <1>8

LEMMA UpTo ==
    ASSUME NEW n \in Nat
    PROVE  IsFiniteSet(1..n) /\ Cardinality(1..n) = n
<1>1. IsFiniteSet(1..n) /\ Cardinality(1..n) = IF 1 > n THEN 0 ELSE n - 1 + 1
  BY FS_Interval
<1> QED  BY <1>1

LEMMA BandsAre ==
    ASSUME NEW G, GroupsOk(G), NEW ts, Lists(ts.members, G)
    PROVE  /\ IsFiniteSet(Bands(ts)) /\ Cardinality(Bands(ts)) <= MaxBands
           /\ \A g \in G : KeyOf(ts, g.key) \in Bands(ts)
<1>1. PICK t : t = ts.members
  OBVIOUS
<1>2. PICK L \in Nat : L = Len(t)
  BY <1>1 DEF Lists
<1>3. t \in Seq(G) /\ DOMAIN t = 1..L /\ \A g \in G : \E i \in 1..L : t[i] = g
  BY <1>1, <1>2 DEF Lists
<1>4. PICK n \in 0..L : n = Most(t, MaxBands)
  BY <1>2, <1>3, ChartsAssumption, FoldOf
<1>5. /\ DOMAIN Named(t, MaxBands) = 1..n /\ \A i \in 1..n : Named(t, MaxBands)[i] = t[i]
      /\ (Folded(t, MaxBands) = <<>>) <=> L <= MaxBands
      /\ n = IF L <= MaxBands THEN L ELSE MaxBands - 1
  BY <1>2, <1>3, <1>4, ChartsAssumption, FoldOf
<1> DEFINE keys == [i \in 1..n |-> t[i].key]
           A == {keys[i] : i \in 1..n}
<1>6. {g.key : g \in ToSet(Named(t, MaxBands))} = A
  <2>1. ToSet(Named(t, MaxBands)) = {t[i] : i \in 1..n}
    BY <1>5 DEF ToSet
  <2> QED  BY <2>1
<1>7. Bands(ts) = A \cup (IF L <= MaxBands THEN {} ELSE {Others})
  BY <1>1, <1>5, <1>6 DEF Bands
<1>8. IsFiniteSet(A) /\ Cardinality(A) <= n /\ Cardinality(A) \in Nat
  <2>1. IsFiniteSet(1..n) /\ Cardinality(1..n) = n
    <3>1. n \in Nat
      BY <1>4
    <3> QED  BY <3>1, UpTo
  <2>2. A = {keys[i] : i \in 1..n}
    OBVIOUS
  <2> HIDE DEF A, keys
  <2>3. IsFiniteSet(A) /\ Cardinality(A) <= Cardinality(1..n)
    BY <2>1, <2>2, ImageIsFinite
  <2> QED  BY <2>1, <2>3, FS_CardinalityType
<1>9. \A i \in 1..n : t[i].key \in A
  OBVIOUS
<1> HIDE DEF A, keys
<1>10. IsFiniteSet(A \cup {Others}) /\ Cardinality(A \cup {Others}) <= Cardinality(A) + 1
  BY <1>8, FS_AddElement
<1>11. CASE L <= MaxBands
  <2>1. Bands(ts) = A /\ n = L
    BY <1>5, <1>7, <1>11
  <2>2. \A g \in G : g.key \in A
    BY <1>3, <1>9, <2>1
  <2> QED  BY <1>8, <1>11, <2>1, <2>2, ChartsAssumption DEF KeyOf
<1>12. CASE ~(L <= MaxBands)
  <2>1. Bands(ts) = A \cup {Others} /\ n = MaxBands - 1
    BY <1>5, <1>7, <1>12
  <2>2. Cardinality(A \cup {Others}) <= MaxBands
    <3>1. Cardinality(A \cup {Others}) \in Nat
      BY <1>10, FS_CardinalityType
    <3> QED  BY <1>8, <1>10, <2>1, <3>1, ChartsAssumption
  <2> QED  BY <1>10, <2>1, <2>2 DEF KeyOf
<1> QED  BY <1>11, <1>12

LEMMA WidthIs ==
    ASSUME NEW range
    PROVE  ResolveBucket(range) \in Nat /\ ResolveBucket(range) > 0
BY QueriesAssumption DEF ResolveBucket

(* The stack.                                                              *)
LEMMA SeriesAddUp ==
    ASSUME NEW db, NEW q, DbOk(db), QOk(q)
    PROVE  LET ts == Timeseries(db, q)
           IN  /\ SeriesTotal(ts) = Weight(ts.points) /\ Weight(ts.points) = Tokens(Sel(db, q))
               /\ Cardinality(Bands(ts)) <= MaxBands
               /\ \A t \in ts.range.from .. ts.range.to - 1 :
                     BucketStart(t, ts.width, ts.offset) \in DOMAIN SeriesRows(ts)
<1> DEFINE S == Sel(db, q)
           ts == Timeseries(db, q)
           P == ts.points
           K == Bands(ts)
           grid == BucketGrid(ts.range, ts.width, ts.offset)
           B == ToSet(grid) \cup {p.key[1] : p \in P}
           hb == [p \in P |-> p.key[1]]
           hk == [p \in P |-> KeyOf(ts, p.key[2])]
<1>1. RowsOk(S) /\ S \subseteq Row
  BY SelectedOk DEF RowsOk
<1>2. /\ ts.range = q.range /\ ts.width = ResolveBucket(q.range) /\ ts.offset = q.offset
      /\ ts.members = Heaviest(NamedGroups(S)) /\ P = Points(S, q)
  BY ChartIs
<1>3. GroupsOk(NamedGroups(S)) /\ \A r \in S : \E g \in NamedGroups(S) : g.key = r.member
  BY <1>1, NamedGroupsOk
<1>4. Lists(ts.members, NamedGroups(S))
  BY <1>2, <1>3, HeaviestLists
<1>5. /\ IsFiniteSet(P) /\ Weight(P) = Tokens(S) /\ \A p \in P : TokensIn(p) \in Nat
      /\ \A p \in P : \E r \in S : p.key = PointOf(q)[r]
  BY <1>1, <1>2, PointsOk
<1>6. IsFiniteSet(K) /\ Cardinality(K) <= MaxBands /\ \A g \in NamedGroups(S) : KeyOf(ts, g.key) \in K
  BY <1>3, <1>4, BandsAre
<1>7. q.range.from \in Int /\ q.range.to \in Int /\ q.offset \in Int
      /\ Whole(q.range, ResolveBucket(q.range), q.offset) <= MaxGrid
  BY DEF QOk
<1>8. /\ IsFiniteSet(DOMAIN grid)
      /\ \A t \in q.range.from .. (q.range.to - 1) :
            \E i \in DOMAIN grid : grid[i] = BucketStart(t, ts.width, ts.offset)
  <2>1. PICK range, w, o : range = q.range /\ w = ResolveBucket(q.range) /\ o = q.offset
    OBVIOUS
  <2>2. range.from \in Int /\ range.to \in Int /\ w \in Nat /\ w > 0 /\ o \in Int /\ Whole(range, w, o) <= MaxGrid
    BY <1>7, <2>1, WidthIs
  <2>3. grid = BucketGrid(range, w, o) /\ ts.width = w /\ ts.offset = o
    BY <1>2, <2>1
  <2> HIDE DEF grid, ts
  <2>4. GridOk(grid, range, w, o)
    BY <2>2, <2>3, GridCovers
  <2> QED  BY <2>1, <2>2, <2>3, <2>4 DEF GridOk
<1> HIDE DEF ts, S, grid
<1>9. ToSet(grid) = {grid[i] : i \in DOMAIN grid}
  BY DEF ToSet
<1> HIDE DEF P, K
<1>10. \A p \in P : hb[p] \in B /\ hk[p] \in K
  <2> SUFFICES ASSUME NEW p \in P PROVE p.key[1] \in B /\ KeyOf(ts, p.key[2]) \in K
    OBVIOUS
  <2>1. PICK r \in S : p.key = PointOf(q)[r]
    BY <1>5
  <2>2. p.key[2] = r.member
    BY <1>1, <2>1 DEF PointOf
  <2>3. PICK g \in NamedGroups(S) : g.key = r.member
    BY <1>3
  <2> QED  BY <1>6, <2>2, <2>3
<1>11. IsFiniteSet(B)
  <2> DEFINE D == {p.key[1] : p \in P}
  <2>1. D = {hb[p] : p \in P}
    OBVIOUS
  <2> HIDE DEF D, hb
  <2>2. IsFiniteSet(D)
    BY <1>5, <2>1, ImageIsFinite
  <2>3. IsFiniteSet(ToSet(grid))
    BY <1>8, <1>9, ImageIsFinite
  <2>4. IsFiniteSet(ToSet(grid) \cup D)
    BY <2>2, <2>3, FS_Union
  <2> QED  BY <2>4 DEF D
<1> DEFINE cells == StackOf(P, B, K, hb, hk)
           rows1 == [b \in B |-> [k \in K |-> Weight({p \in P : p.key[1] = b /\ KeyOf(ts, p.key[2]) = k})]]
<1>12. SeriesRows(ts) = rows1
  BY DEF SeriesRows, grid, P, K
<1>13. rows1 = cells
  <2>1. \A b \in B, k \in K : {p \in P : p.key[1] = b /\ KeyOf(ts, p.key[2]) = k} = {p \in P : hb[p] = b /\ hk[p] = k}
    OBVIOUS
  <2> HIDE DEF hb, hk, B
  <2> QED  BY <2>1 DEF StackOf
<1> HIDE DEF B, hb, hk
<1>14. SumFunction([b \in B |-> SumFunction(cells[b])]) = Weight(P)
  BY <1>5, <1>6, <1>10, <1>11, StackAddsUp
<1>15. DOMAIN cells = B
  BY DEF StackOf
<1> HIDE DEF cells, rows1
<1>16. SeriesTotal(ts) = Weight(P)
  BY <1>12, <1>13, <1>14, <1>15 DEF SeriesTotal
<1>17. \A t \in ts.range.from .. ts.range.to - 1 : BucketStart(t, ts.width, ts.offset) \in DOMAIN SeriesRows(ts)
  <2> SUFFICES ASSUME NEW t \in q.range.from .. (q.range.to - 1)
               PROVE  BucketStart(t, ts.width, ts.offset) \in B
    BY <1>2, <1>12, <1>13, <1>15
  <2>1. PICK i \in DOMAIN grid : grid[i] = BucketStart(t, ts.width, ts.offset)
    BY <1>8
  <2> QED  BY <1>9, <2>1 DEF B
<1> QED  BY <1>5, <1>6, <1>16, <1>17 DEF P, K, ts, S

LEMMA WeightOfOne ==
    ASSUME NEW g, TokensIn(g) \in Nat
    PROVE  Weight({g}) = TokensIn(g) /\ Weight({}) = 0
<1> DEFINE f == [h \in {g} |-> TokensIn(h)]
<1>1. Weight({g}) = Sum(f, {g}) /\ Weight({}) = Sum([h \in {} |-> TokensIn(h)], {})
  BY WeightIsSum
<1>2. f[g] = TokensIn(g)
  OBVIOUS
<1> HIDE DEF f
<1>3. Sum(f, {g}) = f[g]
  <2>1. f[g] \in Int
    BY <1>2
  <2> QED  BY <2>1, SumOfOne
<1> QED  BY <1>1, <1>2, <1>3, SumEmpty

LEMMA PointWeighs ==
    ASSUME NEW S, RowsOk(S), NEW q, NEW k
    PROVE  Weight({p \in Points(S, q) : p.key = k}) = Tokens(OfKey(S, PointOf(q), k))
<1> DEFINE P == Points(S, q)
           A == {p \in P : p.key = k}
           mine == OfKey(S, PointOf(q), k)
<1>1. /\ \A p \in P :
                 /\ TokensIn(p) = Tokens(OfKey(S, PointOf(q), p.key)) /\ TokensIn(p) \in Nat
                 /\ \E r \in S : p.key = PointOf(q)[r]
      /\ \A r \in S : \E p \in P : p.key = PointOf(q)[r]
      /\ \A p, o \in P : p.key = o.key => p = o
  BY PointsOk
<1> HIDE DEF P
<1>2. CASE A = {}
  <2>1. mine = {}
    BY <1>1, <1>2 DEF OfKey
  <2>2. Weight({}) = 0
    BY WeightIsSum, SumEmpty
  <2> QED  BY <1>2, <2>1, <2>2, NoTokens DEF P
<1>3. CASE A # {}
  <2>1. PICK p \in P : p.key = k
    BY <1>3
  <2>2. A = {p}
    BY <1>1, <2>1
  <2>3. Weight({p}) = TokensIn(p)
    BY <1>1, <2>1, WeightOfOne
  <2> QED  BY <1>1, <2>1, <2>2, <2>3 DEF P
<1> QED  BY <1>2, <1>3

LEMMA TrendsAddUp ==
    ASSUME NEW db, NEW q, DbOk(db), QOk(q), NEW i \in DOMAIN Timeseries(db, q).members
    PROVE  LET ts == Timeseries(db, q)
           IN  SumFunction(Trend(ts, ts.members[i].key)) = ts.members[i].totals.tokens
<1> DEFINE S == Sel(db, q)
           ts == Timeseries(db, q)
           g == ts.members[i]
<1>1. RowsOk(S) /\ S \subseteq Row
  BY SelectedOk DEF RowsOk
<1>2. PICK range, w, o : range = q.range /\ w = ResolveBucket(q.range) /\ o = q.offset
  OBVIOUS
<1>3. range.from \in Int /\ range.to \in Int /\ w \in Nat /\ w > 0 /\ o \in Int /\ Whole(range, w, o) <= MaxGrid
  BY <1>2, WidthIs DEF QOk
<1>4. /\ ts.range = range /\ ts.width = w /\ ts.offset = o
      /\ ts.members = Heaviest(NamedGroups(S)) /\ ts.points = Points(S, q)
  BY <1>2, ChartIs
<1>5. \A r \in S : r.at \in range.from .. (range.to - 1) /\ PointOf(q)[r] = <<BucketStart(r.at, w, o), r.member>>
  <2>1. ASSUME NEW r \in S PROVE r.at \in range.from .. (range.to - 1)
    <3>1. range.from <= r.at /\ r.at < range.to /\ r.at \in Int
      BY <1>1, <1>2, DashboardRows DEF Sel, Selected
    <3> QED  BY <1>3, <3>1
  <2>2. \A r \in S : PointOf(q)[r] = <<BucketStart(r.at, w, o), r.member>>
    BY <1>1, <1>2 DEF PointOf
  <2> QED  BY <2>1, <2>2
<1> HIDE DEF S, ts
<1>6. GroupsOk(NamedGroups(S)) /\ \A h \in NamedGroups(S) : TokensIn(h) = Tokens({r \in S : r.member = h.key})
  BY <1>1, NamedGroupsOk
<1>7. g \in NamedGroups(S)
  <2>1. Lists(ts.members, NamedGroups(S))
    BY <1>4, <1>6, HeaviestLists
  <2> QED  BY <2>1, ListOfAll DEF ts
<1>8. PICK m : m = g.key
  OBVIOUS
<1> HIDE DEF g
<1> DEFINE M == {r \in S : r.member = m}
<1>9. RowsOk(M) /\ TokensIn(g) = Tokens(M) /\ M \subseteq S
  <2>1. M \subseteq S
    OBVIOUS
  <2>2. TokensIn(g) = Tokens(M)
    BY <1>6, <1>7, <1>8
  <2> HIDE DEF M
  <2> QED  BY <1>1, <2>1, <2>2, TokensOfPart
<1>10. PICK grid : grid = BucketGrid(range, w, o)
  OBVIOUS
<1>11. /\ IsFiniteSet(DOMAIN grid) /\ \A j, k \in DOMAIN grid : grid[j] = grid[k] => j = k
       /\ \A t \in range.from .. (range.to - 1) : \E j \in DOMAIN grid : grid[j] = BucketStart(t, w, o)
  <2>1. GridOk(grid, range, w, o)
    BY <1>3, <1>10, GridCovers
  <2> QED  BY <1>3, <2>1 DEF GridOk
<1> DEFINE D == DOMAIN grid
           at == [r \in S |-> CHOOSE j \in D : grid[j] = BucketStart(r.at, w, o)]
           trend == [j \in D |-> Weight({p \in Points(S, q) : p.key = <<grid[j], m>>})]
           v == [j \in D |-> Sum(TokensOf, {r \in M : at[r] = j})]
<1>12. Trend(ts, m) = trend
  BY <1>4, <1>10 DEF Trend
<1>13. ASSUME NEW r \in S PROVE at[r] \in D /\ grid[at[r]] = BucketStart(r.at, w, o)
  <2>1. \E j \in D : grid[j] = BucketStart(r.at, w, o)
    BY <1>5, <1>11
  <2> QED  BY <2>1
<1>14. ASSUME NEW j \in D PROVE trend[j] = v[j]
  <2>1. {r \in M : at[r] = j} = OfKey(S, PointOf(q), <<grid[j], m>>)
    <3>1. \A r \in S : PointOf(q)[r] = <<grid[j], m>> <=> r.member = m /\ at[r] = j
      <4> HIDE DEF at
      <4> QED  BY <1>5, <1>11, <1>13
    <3> QED  BY <3>1 DEF OfKey
  <2>2. RowsOk(OfKey(S, PointOf(q), <<grid[j], m>>))
    BY <1>1, TokensOfPart DEF OfKey
  <2>3. trend[j] = Tokens(OfKey(S, PointOf(q), <<grid[j], m>>))
    BY <1>1, PointWeighs
  <2> QED  BY <2>1, <2>2, <2>3, TokensAreSum
<1>15. \A r \in M : TokensOf[r] \in Int /\ at[r] \in D
  <2>1. \A r \in M : r \in Row /\ r \in S
    BY <1>1
  <2> HIDE DEF at, M
  <2> QED  BY <1>13, <2>1, DashboardRows DEF TokensOf
<1>16. Sum(TokensOf, M) = Sum(v, D)
  <2>1. IsFiniteSet(M)
    BY <1>9 DEF RowsOk
  <2> HIDE DEF at, M, D
  <2>2. IsFiniteSet(D)
    BY <1>11 DEF D
  <2> QED  BY <1>15, <2>1, <2>2, SumGroups
<1>17. DOMAIN trend = D
  OBVIOUS
<1> HIDE DEF trend, v, M, at, D
<1>18. Sum(trend, D) = Sum(v, D)
  <2>1. IsFiniteSet(D)
    BY <1>11 DEF D
  <2> QED  BY <1>14, <2>1, SumAgrees
<1>19. SumFunction(trend) = TokensIn(g)
  BY <1>9, <1>16, <1>17, <1>18, SumsOver, TokensAreSum
<1>20. g.totals.tokens = TokensIn(g)
  BY DEF TokensIn
<1> QED  BY <1>8, <1>12, <1>19, <1>20 DEF g, ts

LEMMA ChartsAddUp ==
    ASSUME NEW db, NEW q, DbOk(db), QOk(q)
    PROVE  /\ ChartAddsUp(Timeseries(db, q))
           /\ SeriesTotal(Timeseries(db, q)) = Summary(db, q).totals.tokens
<1>1. Summary(db, q).totals.tokens = Tokens(Sel(db, q))
  BY DEF Summary, Totals, Sel
<1>2. PICK ts : ts = Timeseries(db, q)
  OBVIOUS
<1>3. /\ SeriesTotal(ts) = Weight(ts.points) /\ Weight(ts.points) = Tokens(Sel(db, q))
      /\ Cardinality(Bands(ts)) <= MaxBands
      /\ \A t \in ts.range.from .. ts.range.to - 1 :
            BucketStart(t, ts.width, ts.offset) \in DOMAIN SeriesRows(ts)
  BY <1>2, SeriesAddUp
<1>4. \A i \in DOMAIN ts.members :
          SumFunction(Trend(ts, ts.members[i].key)) = ts.members[i].totals.tokens
  BY <1>2, TrendsAddUp
<1> QED  BY <1>1, <1>2, <1>3, <1>4 DEF ChartAddsUp

-----------------------------------------------------------------------------
(***************************************************************************)
(* Badges: what each marks.                                                *)
(***************************************************************************)
CP == INSTANCE Calendar_proofs WITH Offset <- OffsetOf, Day <- DayLong, Week <- WeekLong, Gap <- MidnightGap

LEMMA SameCalendar ==
    /\ \A d : CP!StartOfCivilDay(d, NULL) = Calendar!StartOfCivilDay(d, NULL)
    /\ \A window, t : CP!FirstDay(window, t, NULL) = Calendar!FirstDay(window, t, NULL)
    /\ \A window, t : CP!NextDay(window, t, NULL) = Calendar!NextDay(window, t, NULL)
    /\ \A d : CP!Steady(d, NULL) <=> Calendar!Steady(d, NULL)
    /\ \A t : CP!MidnightRepeated(t, NULL) <=> Calendar!MidnightRepeated(t, NULL)
<1>1. \A t : CP!CivilDateAt(t, NULL) = Calendar!CivilDateAt(t, NULL)
  BY DEF CP!CivilDateAt, Calendar!CivilDateAt
<1>2. \A d : CP!Bisection(d, NULL) = Calendar!Bisection(d, NULL)
  BY DEF CP!Bisection, Calendar!Bisection, CP!CivilDateAt, Calendar!CivilDateAt, CP!Middle, Calendar!Middle
<1>3. \A d : CP!StartOfCivilDay(d, NULL) = Calendar!StartOfCivilDay(d, NULL)
  BY <1>1, <1>2 DEF CP!StartOfCivilDay, Calendar!StartOfCivilDay, CP!Bisect, Calendar!Bisect
<1>4. \A window, t : CP!FirstDay(window, t, NULL) = Calendar!FirstDay(window, t, NULL)
  BY <1>1 DEF CP!FirstDay, Calendar!FirstDay, CP!DaysOf, Calendar!DaysOf
<1>5. \A window, t : CP!NextDay(window, t, NULL) = Calendar!NextDay(window, t, NULL)
  BY <1>4 DEF CP!NextDay, Calendar!NextDay, CP!DaysOf, Calendar!DaysOf
<1>6. \A d : CP!Steady(d, NULL) <=> Calendar!Steady(d, NULL)
  BY DEF CP!Steady, Calendar!Steady, CP!Around, Calendar!Around
<1>7. \A t : CP!MidnightRepeated(t, NULL) <=> Calendar!MidnightRepeated(t, NULL)
  BY DEF CP!MidnightRepeated, Calendar!MidnightRepeated
<1> QED  BY <1>3, <1>4, <1>5, <1>6, <1>7

(* Now lies in each rule's window.                                         *)
LEMMA WindowsHoldNow ==
    ASSUME NEW rule \in AlertRule, NEW t \in Horizon
    PROVE  LET w == WindowAt(rule.window, t)
           IN  w.start \in Int /\ w.end \in Int /\ w.start <= t /\ t < w.end
<1>1. CP!CalendarAssumption
  BY QueriesAssumption, BadgesAssumption DEF CP!CalendarAssumption
<1>2. t \in Int
  BY DashboardAssumption
<1>3. OffsetOf(NULL, t) \in (-DayLong) .. DayLong
  BY DashboardRules DEF OffsetOf
<1>4. /\ CP!Steady(CP!FirstDay(rule.window, t, NULL), NULL) /\ CP!Steady(CP!NextDay(rule.window, t, NULL), NULL)
      /\ ~CP!MidnightRepeated(t, NULL) /\ 2 * MidnightGap <= DayLong
  BY DashboardRules, SameCalendar
<1>5. LET w == CP!WindowBoundsAt(rule.window, t, NULL)
      IN  /\ w.start \in Int /\ w.end \in Int
          /\ (w.start <= t /\ t < w.end) \/ CP!MidnightRepeated(t, NULL)
  BY <1>1, <1>2, <1>3, <1>4, CP!InOwnWindow
<1>6. CP!WindowBoundsAt(rule.window, t, NULL) = WindowAt(rule.window, t)
  BY SameCalendar DEF CP!WindowBoundsAt, Calendar!WindowBoundsAt, WindowAt
<1> QED  BY <1>4, <1>5, <1>6

LEMMA Cancels ==
    ASSUME NEW e \in Nat, e > 0, NEW x \in Int, NEW y \in Int
    PROVE  (e * x >= e * y => x >= y) /\ (e * x > e * y => x > y)
<1>1. ASSUME NEW a \in Int, NEW b \in Int, a < b PROVE e * a < e * b /\ e * a \in Int /\ e * b \in Int
  <2>1. PICK j \in Nat : b = a + (1 + j)
    <3>1. b - a - 1 \in Nat /\ b = a + (1 + (b - a - 1))
      BY <1>1
    <3> QED  BY <3>1
  <2>2. e * b = e * a + e * (1 + j) /\ e * (1 + j) = e * 1 + e * j /\ e * 1 = e
    <3>1. 1 + j \in Int
      OBVIOUS
    <3> QED  BY <2>1, <3>1, Distributes
  <2>3. PICK u, v \in Int : u = e * a /\ v = e * j /\ v >= 0
    <3>1. e * a \in Int /\ e * j \in Int /\ e * j >= 0
      OBVIOUS
    <3> QED  BY <3>1
  <2> QED  BY <2>2, <2>3
<1>2. CASE x < y
  BY <1>1, <1>2
<1>3. CASE x = y
  BY <1>3
<1>4. CASE x > y
  BY <1>4
<1> QED  BY <1>2, <1>3, <1>4

(* Fractions in order: a over d, b over e, c over f.                       *)
LEMMA FractionsInOrder ==
    ASSUME NEW a \in Nat, NEW b \in Nat, NEW c \in Nat,
           NEW d \in Nat, NEW e \in Nat, NEW f \in Nat, d > 0, e > 0, f > 0,
           a * e >= b * d, b * f >= c * e
    PROVE  /\ a * f >= c * d
           /\ a * e > b * d \/ b * f > c * e => a * f > c * d
<1>1. PICK ae, bd, bf, ce, af, cd \in Nat :
          ae = a * e /\ bd = b * d /\ bf = b * f /\ ce = c * e /\ af = a * f /\ cd = c * d
  OBVIOUS
<1>2. ae >= bd /\ bf >= ce
  BY <1>1
<1>3. \A x, y \in Nat, z \in Nat : x >= y => z * x >= z * y
  <2> SUFFICES ASSUME NEW x \in Nat, NEW y \in Nat, NEW z \in Nat, x >= y PROVE z * x >= z * y
    OBVIOUS
  <2>1. PICK j \in Nat : x = y + j
    <3>1. x - y \in Nat /\ x = y + (x - y)
      OBVIOUS
    <3> QED  BY <3>1
  <2>2. z * x = z * y + z * j /\ z * j \in Nat /\ z * y \in Nat
    BY <2>1, Distributes
  <2> QED  BY <2>2
<1>4. \A x, y \in Nat, z \in Nat : x > y /\ z > 0 => z * x > z * y
  <2> SUFFICES ASSUME NEW x \in Nat, NEW y \in Nat, NEW z \in Nat, x > y, z > 0 PROVE z * x > z * y
    OBVIOUS
  <2>1. PICK j \in Nat : x = y + (1 + j)
    <3>1. x - y - 1 \in Nat /\ x = y + (1 + (x - y - 1))
      OBVIOUS
    <3> QED  BY <3>1
  <2>2. 1 + j \in Int
    OBVIOUS
  <2>3. z * x = z * y + z * (1 + j) /\ z * (1 + j) = z * 1 + z * j /\ z * 1 = z /\ z * j \in Nat /\ z * y \in Nat
    BY <2>1, <2>2, Distributes
  <2> QED  BY <2>3
<1>5. f * ae = e * af /\ f * bd = d * bf /\ d * ce = e * cd
  BY <1>1
<1>6. PICK x, y, z, w \in Int : x = f * ae /\ y = f * bd /\ z = d * ce /\ w = d * bf /\ x = e * af /\ z = e * cd /\ y = w
  BY <1>5
<1>7. x >= y /\ w >= z
  BY <1>2, <1>3, <1>6
<1>8. (ae > bd => x > y) /\ (bf > ce => w > z)
  BY <1>4, <1>6
<1>9. e * af >= e * cd /\ (ae > bd \/ bf > ce => e * af > e * cd)
  BY <1>6, <1>7, <1>8
<1>10. af >= cd /\ (ae > bd \/ bf > ce => af > cd)
  BY <1>9, Cancels
<1> QED  BY <1>1, <1>10

-----------------------------------------------------------------------------
(* Badges, the most urgent first.                                          *)
Dividend(a) == a.value[1]
Divisor(a) == a.value[2] * a.rule.threshold
StatesOk(A) ==
    /\ IsFiniteSet(A)
    /\ \A a \in A : /\ Dividend(a) \in Nat /\ Divisor(a) \in Nat /\ Divisor(a) > 0
                    /\ a.value[2] \in Nat /\ a.rule \in AlertRule /\ a.member \in Names
    /\ \A a, b \in A : a.rule = b.rule /\ a.member = b.member => a = b
Urgency(A) == {p \in A \X A : MoreUrgent(p[1], p[2])}

LEMMA UrgencyIs ==
    ASSUME NEW a, NEW b, Dividend(a) \in Nat, Dividend(b) \in Nat, a.value[2] \in Nat, b.value[2] \in Nat,
           a.rule.threshold \in Nat, b.rule.threshold \in Nat
    PROVE  MoreUrgent(a, b) <=>
              \/ Dividend(a) * Divisor(b) > Dividend(b) * Divisor(a)
              \/ /\ Dividend(a) * Divisor(b) = Dividend(b) * Divisor(a)
                 /\ Before(a.member, b.member) \/ (a.member = b.member /\ a.rule.id < b.rule.id)
<1>1. a.value[1] * b.value[2] * b.rule.threshold = Dividend(a) * Divisor(b)
  BY DEF Dividend, Divisor
<1>2. b.value[1] * a.value[2] * a.rule.threshold = Dividend(b) * Divisor(a)
  BY DEF Dividend, Divisor
<1> QED  BY <1>1, <1>2 DEF MoreUrgent

LEMMA UrgencyOrders ==
    ASSUME NEW A, StatesOk(A)
    PROVE  Orders(Urgency(A), A)
<1>1. ASSUME NEW a \in A, NEW b \in A
      PROVE  <<a, b>> \in Urgency(A) <=>
              \/ Dividend(a) * Divisor(b) > Dividend(b) * Divisor(a)
              \/ /\ Dividend(a) * Divisor(b) = Dividend(b) * Divisor(a)
                 /\ Before(a.member, b.member) \/ (a.member = b.member /\ a.rule.id < b.rule.id)
  <2>1. /\ Dividend(a) \in Nat /\ Dividend(b) \in Nat /\ a.value[2] \in Nat /\ b.value[2] \in Nat
        /\ a.rule.threshold \in Nat /\ b.rule.threshold \in Nat
    BY BadgesAssumption DEF StatesOk
  <2> QED  BY <2>1, UrgencyIs DEF Urgency
<1>2. \A a \in A : /\ Dividend(a) \in Nat /\ Divisor(a) \in Nat /\ Divisor(a) > 0 /\ a.member \in Names
                   /\ a.rule \in AlertRule /\ a.rule.id \in Int
  BY DashboardRules DEF StatesOk
<1>3. \A a, b \in A : Dividend(a) * Divisor(b) \in Nat
  BY <1>2
<1>4. \A a \in A : <<a, a>> \notin Urgency(A)
  <2> SUFFICES ASSUME NEW a \in A PROVE <<a, a>> \notin Urgency(A)
    OBVIOUS
  <2>1. PICK x \in Nat : x = Dividend(a) * Divisor(a)
    BY <1>3
  <2>2. ~Before(a.member, a.member) /\ ~(a.rule.id < a.rule.id)
    BY <1>2, DashboardNames
  <2> QED  BY <1>1, <2>1, <2>2
<1>5. \A a, b \in A : a = b \/ <<a, b>> \in Urgency(A) \/ <<b, a>> \in Urgency(A)
  <2> SUFFICES ASSUME NEW a \in A, NEW b \in A, a # b
               PROVE  <<a, b>> \in Urgency(A) \/ <<b, a>> \in Urgency(A)
    OBVIOUS
  <2>1. PICK x, y \in Nat : x = Dividend(a) * Divisor(b) /\ y = Dividend(b) * Divisor(a)
    BY <1>3
  <2>2. a.rule # b.rule \/ a.member # b.member
    BY DEF StatesOk
  <2>3. a.rule # b.rule => a.rule.id # b.rule.id
    BY <1>2, DashboardRules
  <2>4. a.rule.id = b.rule.id \/ a.rule.id < b.rule.id \/ b.rule.id < a.rule.id
    BY <1>2
  <2>5. a.member = b.member \/ Before(a.member, b.member) \/ Before(b.member, a.member)
    BY <1>2, DashboardNames
  <2>6. x > y \/ x = y \/ y > x
    OBVIOUS
  <2> QED  BY <1>1, <2>1, <2>2, <2>3, <2>4, <2>5, <2>6
<1>6. \A a, b, c \in A : <<a, b>> \in Urgency(A) /\ <<b, c>> \in Urgency(A) => <<a, c>> \in Urgency(A)
  <2> SUFFICES ASSUME NEW a \in A, NEW b \in A, NEW c \in A, <<a, b>> \in Urgency(A), <<b, c>> \in Urgency(A)
               PROVE  <<a, c>> \in Urgency(A)
    OBVIOUS
  <2>1. PICK ab, ba, bc, cb, ac, ca \in Nat :
            /\ ab = Dividend(a) * Divisor(b) /\ ba = Dividend(b) * Divisor(a) /\ bc = Dividend(b) * Divisor(c)
            /\ cb = Dividend(c) * Divisor(b) /\ ac = Dividend(a) * Divisor(c) /\ ca = Dividend(c) * Divisor(a)
    BY <1>3
  <2> DEFINE Ties(x, y) == Before(x.member, y.member) \/ (x.member = y.member /\ x.rule.id < y.rule.id)
  <2>2. ab > ba \/ (ab = ba /\ Ties(a, b))
    BY <1>1, <2>1
  <2>3. bc > cb \/ (bc = cb /\ Ties(b, c))
    BY <1>1, <2>1
  <2>4. ac >= ca /\ (ab > ba \/ bc > cb => ac > ca)
    <3>1. ab >= ba /\ bc >= cb
      BY <2>2, <2>3
    <3>2. PICK x, y, z, d, e, f \in Nat :
              /\ x = Dividend(a) /\ y = Dividend(b) /\ z = Dividend(c) /\ d = Divisor(a) /\ e = Divisor(b) /\ f = Divisor(c)
              /\ d > 0 /\ e > 0 /\ f > 0
      BY <1>2
    <3>3. x * e >= y * d /\ y * f >= z * e
      BY <2>1, <3>1, <3>2
    <3>4. x * f >= z * d /\ (x * e > y * d \/ y * f > z * e => x * f > z * d)
      BY <3>2, <3>3, FractionsInOrder
    <3> QED  BY <2>1, <3>2, <3>4
  <2>5. Ties(a, b) /\ Ties(b, c) => Ties(a, c)
    <3>1. Before(a.member, b.member) /\ Before(b.member, c.member) => Before(a.member, c.member)
      BY <1>2, DashboardNames
    <3>2. a.rule.id < b.rule.id /\ b.rule.id < c.rule.id => a.rule.id < c.rule.id
      BY <1>2
    <3> QED  BY <3>1, <3>2
  <2> HIDE DEF Ties
  <2>6. ac > ca \/ (ac = ca /\ Ties(a, c))
    <3>1. CASE ab > ba \/ bc > cb
      BY <2>4, <3>1
    <3>2. CASE ~(ab > ba \/ bc > cb)
      <4>1. Ties(a, b) /\ Ties(b, c)
        BY <2>2, <2>3, <3>2
      <4>2. ac > ca \/ ac = ca
        BY <2>4
      <4> QED  BY <2>5, <4>1, <4>2
    <3> QED  BY <3>1, <3>2
  <2> QED  BY <1>1, <2>1, <2>6 DEF Ties
<1> QED  BY <1>4, <1>5, <1>6 DEF Orders

LEMMA UrgentList ==
    ASSUME NEW A, StatesOk(A)
    PROVE  /\ Lists(MostUrgent(A), A)
           /\ \A i, j \in DOMAIN MostUrgent(A) :
                 i < j => ~MoreUrgent(MostUrgent(A)[j], MostUrgent(A)[i])
<1>1. Orders(Urgency(A), A) /\ IsFiniteSet(A)
  BY UrgencyOrders DEF StatesOk
<1>2. PICK q : q = MostUrgent(A)
  OBVIOUS
<1>3. q = InOrder(A, Urgency(A))
  BY <1>2 DEF MostUrgent, Urgency
<1>4. Lists(q, A) /\ \A i, j \in DOMAIN q : i < j <=> <<q[i], q[j]>> \in Urgency(A)
  BY <1>1, <1>3, InOrderLists
<1>5. \A i, j \in DOMAIN q : i \in Int /\ j \in Int /\ q[i] \in A /\ q[j] \in A
  BY <1>4, ListOfAll DEF Lists
<1>6. \A i, j \in DOMAIN q : i < j => ~MoreUrgent(q[j], q[i])
  <2> SUFFICES ASSUME NEW i \in DOMAIN q, NEW j \in DOMAIN q, i < j, MoreUrgent(q[j], q[i]) PROVE FALSE
    OBVIOUS
  <2>1. <<q[j], q[i]>> \in Urgency(A)
    BY <1>5 DEF Urgency
  <2>2. j < i
    BY <1>4, <2>1
  <2> QED  BY <1>5, <2>2
<1> QED  BY <1>2, <1>4, <1>6

(* What a member has used in a window, and whether a rule marks it.        *)
Usage(R, w, m) ==
    [member |-> m, tokens |-> Tokens({r \in InWindow(R, w) : r.member = m}), period |-> PeriodUsage(R, w)]
MembersIn(R, w) == {r.member : r \in InWindow(R, w)}
Marks(rule, R, w, m) ==
    /\ m \in MembersIn(R, w) /\ m # Placeholder /\ rule.member \in {NULL, m}
    /\ CrossesThreshold(rule, Usage(R, w, m))
State(rule, R, t, m) == StateOf(rule, Usage(R, WindowAt(rule.window, t), m), WindowAt(rule.window, t), FiresAsked(t))
States(R, t) == UNION {StatesOf(rule, R, WindowAt(rule.window, t), FiresAsked(t)) : rule \in AlertRule}

LEMMA StatesOfRule ==
    ASSUME NEW rule, NEW R, NEW w, NEW fired
    PROVE  StatesOf(rule, R, w, fired)
             = {StateOf(rule, Usage(R, w, m), w, fired) : m \in {n \in MembersIn(R, w) : Marks(rule, R, w, n)}}
<1> DEFINE M == {n \in MembersIn(R, w) : Marks(rule, R, w, n)}
           U == {v \in MemberWindowUsages(R, w) : rule.member \in {NULL, v.member} /\ CrossesThreshold(rule, v)}
<1>1. MemberWindowUsages(R, w) = {Usage(R, w, m) : m \in MembersIn(R, w) \ {Placeholder}}
  BY DEF MemberWindowUsages, Usage, MembersIn
<1>2. \A m : Usage(R, w, m).member = m
  BY DEF Usage
<1>3. \A u \in U : \E m \in M : u = Usage(R, w, m)
  <2> SUFFICES ASSUME NEW u \in U PROVE \E m \in M : u = Usage(R, w, m)
    OBVIOUS
  <2>1. PICK m \in MembersIn(R, w) \ {Placeholder} : u = Usage(R, w, m)
    BY <1>1
  <2>2. m \in M
    BY <1>2, <2>1 DEF Marks
  <2> QED  BY <2>1, <2>2
<1>4. \A m \in M : Usage(R, w, m) \in U
  <2> SUFFICES ASSUME NEW m \in M PROVE Usage(R, w, m) \in U
    OBVIOUS
  <2>1. m \in MembersIn(R, w) \ {Placeholder} /\ rule.member \in {NULL, m} /\ CrossesThreshold(rule, Usage(R, w, m))
    BY DEF Marks
  <2>2. Usage(R, w, m) \in MemberWindowUsages(R, w)
    BY <1>1, <2>1
  <2> QED  BY <1>2, <2>1, <2>2
<1>5. StatesOf(rule, R, w, fired) = {StateOf(rule, u, w, fired) : u \in U}
  BY DEF StatesOf
<1> HIDE DEF U, M
<1>6. U = {Usage(R, w, m) : m \in M}
  BY <1>3, <1>4
<1>7. {StateOf(rule, u, w, fired) : u \in U} = {StateOf(rule, Usage(R, w, m), w, fired) : m \in M}
  BY <1>6
<1> QED  BY <1>5, <1>7 DEF M

FiredAt(s, t) == s.fired <=> <<s.rule.id, s.member, s.window.start>> \in FiresAsked(t)
LEMMA StateIs ==
    ASSUME NEW rule, NEW R, NEW t, NEW m
    PROVE  /\ State(rule, R, t, m).rule = rule /\ State(rule, R, t, m).member = m
           /\ State(rule, R, t, m).window = WindowAt(rule.window, t)
           /\ State(rule, R, t, m).value = MetricValue(rule.metric, Usage(R, WindowAt(rule.window, t), m))
           /\ FiredAt(State(rule, R, t, m), t)
<1>1. PICK s, w, u : s = State(rule, R, t, m) /\ w = WindowAt(rule.window, t) /\ u = Usage(R, w, m)
  OBVIOUS
<1>2. \A n : Usage(R, w, n).member = n
  BY DEF Usage
<1>3. u.member = m
  BY <1>1, <1>2
<1>4. PICK F : F = FiresAsked(t)
  OBVIOUS
<1>5. PICK v : v = MetricValue(rule.metric, u)
  OBVIOUS
<1>6. PICK f : f = (<<rule.id, m, w.start>> \in F)
  OBVIOUS
<1>7. s = [rule |-> rule, member |-> m, value |-> v, window |-> w, fired |-> f]
  BY <1>1, <1>3, <1>4, <1>5, <1>6 DEF State, StateOf
<1>8. s.rule = rule /\ s.member = m /\ s.window = w /\ s.value = v /\ s.fired = f
  BY <1>7
<1>9. FiredAt(s, t)
  BY <1>4, <1>6, <1>8 DEF FiredAt
<1> QED  BY <1>1, <1>5, <1>8, <1>9

LEMMA StatesAre ==
    ASSUME NEW R, NEW t, NEW s
    PROVE  s \in States(R, t) <=>
              \E rule \in AlertRule : \E m \in MembersIn(R, WindowAt(rule.window, t)) :
                 Marks(rule, R, WindowAt(rule.window, t), m) /\ s = State(rule, R, t, m)
<1> DEFINE W(rule) == WindowAt(rule.window, t)
<1>1. \A rule : StatesOf(rule, R, W(rule), FiresAsked(t))
        = {State(rule, R, t, m) : m \in {n \in MembersIn(R, W(rule)) : Marks(rule, R, W(rule), n)}}
  BY StatesOfRule DEF State
<1>2. s \in States(R, t) <=> \E rule \in AlertRule : s \in StatesOf(rule, R, W(rule), FiresAsked(t))
  BY DEF States
<1> HIDE DEF W
<1>3. \A rule : s \in StatesOf(rule, R, W(rule), FiresAsked(t)) <=>
              \E m \in MembersIn(R, W(rule)) : Marks(rule, R, W(rule), m) /\ s = State(rule, R, t, m)
  BY <1>1
<1>4. s \in States(R, t) <=>
              \E rule \in AlertRule : \E m \in MembersIn(R, W(rule)) :
                 Marks(rule, R, W(rule), m) /\ s = State(rule, R, t, m)
  BY <1>2, <1>3
<1> QED  BY <1>4 DEF W

LEMMA UsageIs ==
    ASSUME NEW R, RowsOk(R), NEW w, NEW m, NEW u, u = Usage(R, w, m)
    PROVE  /\ RowsOk(InWindow(R, w)) /\ IsFiniteSet(MembersIn(R, w))
           /\ u.tokens \in Nat /\ u.period.tokens \in Nat /\ u.tokens <= u.period.tokens
           /\ u.tokens = Tokens({r \in InWindow(R, w) : r.member = m})
           /\ u.period.tokens = Tokens(InWindow(R, w))
           /\ u.period.contributors = Cardinality(MembersIn(R, w))
<1>1. RowsOk(InWindow(R, w))
  BY TokensOfPart DEF InWindow
<1> DEFINE S == InWindow(R, w)
           T == {r \in S : r.member = m}
<1>2. RowsOk(T) /\ Tokens(T) <= Tokens(S) /\ Tokens(S) \in Nat /\ Tokens(T) \in Nat
  BY <1>1, TokensOfPart, TokensAreSum
<1>3. IsFiniteSet(MembersIn(R, w))
  <2>1. IsFiniteSet(S) /\ S \subseteq Row
    BY <1>1 DEF RowsOk
  <2>2. MembersIn(R, w) = {MemberOf[r] : r \in S}
    BY <2>1 DEF MembersIn, MemberOf
  <2> QED  BY <2>1, <2>2, ImageIsFinite
<1>4. /\ Usage(R, w, m).tokens = Tokens(T) /\ Usage(R, w, m).period.tokens = Tokens(S)
      /\ Usage(R, w, m).period.contributors = Cardinality(MembersIn(R, w))
  BY DEF Usage, PeriodUsage, MembersIn
<1> QED  BY <1>1, <1>2, <1>3, <1>4

LEMMA ValueIs ==
    ASSUME NEW metric, NEW u, u.tokens \in Nat, u.period.tokens \in Nat, u.tokens <= u.period.tokens,
           NEW v, v = MetricValue(metric, u)
    PROVE  /\ v[1] \in Nat /\ v[2] \in Nat /\ v[2] > 0
           /\ metric = "share_pct" => v[1] <= 100 * v[2]
           /\ metric # "share_pct" => v[1] = u.tokens /\ v[2] = 1
           /\ metric = "share_pct" /\ u.period.tokens > 0 => v[1] = 100 * u.tokens /\ v[2] = u.period.tokens
           /\ metric = "share_pct" /\ u.period.tokens = 0 => v[1] = 0 /\ v[2] = 1
<1>1. PICK a, b \in Nat : a = u.tokens /\ b = u.period.tokens /\ a <= b
  OBVIOUS
<1>2. v = IF metric = "share_pct"
                               THEN IF b > 0 THEN <<100 * a, b>> ELSE <<0, 1>>
                               ELSE <<a, 1>>
  BY <1>1 DEF MetricValue
<1> QED  BY <1>1, <1>2

LEMMA PositiveProduct ==
    ASSUME NEW x \in Nat, NEW y \in Nat, x > 0, y > 0
    PROVE  x * y \in Nat /\ x * y > 0
OBVIOUS

(* The states are a finite set, one for each rule and member.              *)
LEMMA StatesAreOk ==
    ASSUME NEW R, RowsOk(R), NEW t
    PROVE  StatesOk(States(R, t))
<1>1. IsFiniteSet(States(R, t))
  <2> DEFINE of == [rule \in AlertRule |-> StatesOf(rule, R, WindowAt(rule.window, t), FiresAsked(t))]
             F == {of[rule] : rule \in AlertRule}
  <2>1. States(R, t) = UNION F
    BY DEF States
  <2>2. IsFiniteSet(AlertRule) /\ F = {of[rule] : rule \in AlertRule}
    BY DashboardRules
  <2>3. ASSUME NEW rule \in AlertRule PROVE IsFiniteSet(of[rule])
    <3> DEFINE w == WindowAt(rule.window, t)
               M == {n \in MembersIn(R, w) : Marks(rule, R, w, n)}
               st == [m \in M |-> StateOf(rule, Usage(R, w, m), w, FiresAsked(t))]
    <3>1. of[rule] = {st[m] : m \in M}
      BY StatesOfRule
    <3>2. IsFiniteSet(M)
      <4>1. M \subseteq MembersIn(R, w)
        OBVIOUS
      <4> HIDE DEF M
      <4>2. IsFiniteSet(MembersIn(R, w))
        BY UsageIs
      <4> QED  BY <4>1, <4>2, FS_Subset
    <3> HIDE DEF st, M, of
    <3> QED  BY <3>1, <3>2, ImageIsFinite
  <2> HIDE DEF of
  <2>4. \A T \in F : IsFiniteSet(T)
    BY <2>3
  <2> HIDE DEF F
  <2>5. IsFiniteSet(F)
    BY <2>2, ImageIsFinite
  <2> QED  BY <2>1, <2>4, <2>5, FS_UNION
<1>2. ASSUME NEW a \in States(R, t)
      PROVE  /\ Dividend(a) \in Nat /\ Divisor(a) \in Nat /\ Divisor(a) > 0
             /\ a.value[2] \in Nat /\ a.rule \in AlertRule /\ a.member \in Names
             /\ a = State(a.rule, R, t, a.member)
  <2>1. PICK rule \in AlertRule : \E m \in MembersIn(R, WindowAt(rule.window, t)) : a = State(rule, R, t, m)
    BY StatesAre
  <2>2. PICK m \in MembersIn(R, WindowAt(rule.window, t)) : a = State(rule, R, t, m)
    BY <2>1
  <2>3. PICK w, u : w = WindowAt(rule.window, t) /\ u = Usage(R, w, m)
    OBVIOUS
  <2>4. a.rule = rule /\ a.member = m /\ a.value = MetricValue(rule.metric, u)
    <3>1. /\ State(rule, R, t, m).rule = rule /\ State(rule, R, t, m).member = m
          /\ State(rule, R, t, m).value = MetricValue(rule.metric, Usage(R, WindowAt(rule.window, t), m))
      BY StateIs
    <3> HIDE DEF State
    <3> QED  BY <2>2, <2>3, <3>1
  <2>5. a.value[1] \in Nat /\ a.value[2] \in Nat /\ a.value[2] > 0
    <3>1. u.tokens \in Nat /\ u.period.tokens \in Nat /\ u.tokens <= u.period.tokens
      BY <2>3, UsageIs
    <3> QED  BY <2>4, <3>1, ValueIs
  <2>6. rule.threshold \in Nat /\ rule.threshold > 0
    BY BadgesAssumption
  <2>7. m \in Names
    <3>1. PICK r \in InWindow(R, w) : r.member = m
      BY <2>3 DEF MembersIn
    <3>2. r \in Row
      BY <3>1, UsageIs DEF RowsOk
    <3> QED  BY <3>1, <3>2, AllNamed
  <2>8. PICK x, y \in Nat : x = a.value[2] /\ y = rule.threshold /\ x > 0 /\ y > 0
    BY <2>5, <2>6
  <2>9. x * y \in Nat /\ x * y > 0
    BY <2>8, PositiveProduct
  <2> QED  BY <2>2, <2>4, <2>5, <2>7, <2>8, <2>9 DEF Dividend, Divisor
<1>3. \A a, b \in States(R, t) : a.rule = b.rule /\ a.member = b.member => a = b
  BY <1>2
<1> QED  BY <1>1, <1>2, <1>3 DEF StatesOk

LEMMA SomeIsLeast ==
    ASSUME NEW S, IsFiniteSet(S), S \subseteq Int, S # {}
    PROVE  Min(S) \in S /\ \A x \in S : Min(S) <= x
<1> DEFINE Has(T) == T = {} \/ \E x \in T : \A y \in T : x <= y
           C == {T \in SUBSET S : Has(T)}
<1>1. {} \in C
  OBVIOUS
<1>2. ASSUME NEW T \in SUBSET S, NEW e \in S \ T, T \in C PROVE T \cup {e} \in C
  <2>1. CASE T = {}
    BY <2>1
  <2>2. CASE T # {}
    <3>1. PICK x \in T : \A y \in T : x <= y
      BY <1>2, <2>2
    <3>2. CASE x <= e
      BY <3>1, <3>2
    <3>3. CASE ~(x <= e)
      <4>1. \A y \in T \cup {e} : e <= y
        BY <3>1, <3>3
      <4> QED  BY <4>1
    <3> QED  BY <3>2, <3>3
  <2> QED  BY <2>1, <2>2
<1> HIDE DEF C
<1>3. S \in C
  BY <1>1, <1>2, ByElement
<1>4. \E x \in S : \A y \in S : x <= y
  BY <1>3 DEF C
<1> QED  BY <1>4 DEF Min

(* No window of a rule is older than the fires that are read.              *)
LEMMA FiresAreRead ==
    ASSUME NEW t \in Horizon, NEW rule \in AlertRule, NEW m
    PROVE  LET k == <<rule.id, m, WindowAt(rule.window, t).start>>
           IN  k \in FiresAsked(t) <=> k \in FireKeys
<1> DEFINE at == [r \in AlertRule |-> WindowAt(r.window, t).start]
           S == {WindowAt(r.window, t).start : r \in AlertRule}
           k == <<rule.id, m, WindowAt(rule.window, t).start>>
<1>1. \A r \in AlertRule : WindowAt(r.window, t).start \in Int
  BY WindowsHoldNow
<1>2. S = {at[r] : r \in AlertRule}
  OBVIOUS
<1>3. IsFiniteSet(AlertRule)
  BY DashboardRules
<1>4. S \subseteq Int /\ WindowAt(rule.window, t).start \in S
  BY <1>1
<1>5. FiresAsked(t) = {f \in FireKeys : f[3] >= Min(S)}
  BY DEF FiresAsked, FiredWindowKeys
<1> HIDE DEF at, S
<1>6. IsFiniteSet(S)
  BY <1>2, <1>3, ImageIsFinite
<1>7. Min(S) \in Int /\ Min(S) <= WindowAt(rule.window, t).start
  BY <1>4, <1>6, SomeIsLeast
<1>8. k[3] = WindowAt(rule.window, t).start
  OBVIOUS
<1>9. k[3] >= Min(S)
  BY <1>1, <1>7, <1>8
<1> HIDE DEF k
<1>10. k \in FiresAsked(t) <=> k \in FireKeys
  BY <1>5, <1>9
<1> QED  BY <1>10 DEF k

(* Each badge alone.                                                       *)
LEMMA BadgeIsTrue ==
    ASSUME NEW R, RowsOk(R), NEW t \in Horizon, NEW a \in States(R, t)
    PROVE  /\ a.window.start <= t /\ t < a.window.end
           /\ a.member # Placeholder
           /\ a.fired <=> <<a.rule.id, a.member, a.window.start>> \in FireKeys
           /\ a.rule.metric = "share_pct" => a.value[1] <= 100 * a.value[2]
<1>1. PICK rule \in AlertRule : \E m \in MembersIn(R, WindowAt(rule.window, t)) :
          Marks(rule, R, WindowAt(rule.window, t), m) /\ a = State(rule, R, t, m)
  BY StatesAre
<1>2. PICK m : Marks(rule, R, WindowAt(rule.window, t), m) /\ a = State(rule, R, t, m)
  BY <1>1
<1>3. PICK w, u : w = WindowAt(rule.window, t) /\ u = Usage(R, w, m)
  OBVIOUS
<1>4. a.rule = rule /\ a.member = m /\ a.window = w /\ a.value = MetricValue(rule.metric, u) /\ FiredAt(a, t)
  BY <1>2, <1>3, StateIs
<1>5. m # Placeholder
  BY <1>2 DEF Marks
<1>6. w.start <= t /\ t < w.end
  BY <1>3, WindowsHoldNow
<1>7. a.fired <=> <<rule.id, m, w.start>> \in FireKeys
  <2>1. a.fired <=> <<rule.id, m, w.start>> \in FiresAsked(t)
    BY <1>4 DEF FiredAt
  <2>2. <<rule.id, m, w.start>> \in FiresAsked(t) <=> <<rule.id, m, w.start>> \in FireKeys
    BY <1>3, FiresAreRead
  <2> QED  BY <2>1, <2>2
<1>8. rule.metric = "share_pct" => a.value[1] <= 100 * a.value[2]
  <2>1. u.tokens \in Nat /\ u.period.tokens \in Nat /\ u.tokens <= u.period.tokens
    BY <1>3, UsageIs
  <2> QED  BY <1>4, <2>1, ValueIs
<1> QED  BY <1>4, <1>5, <1>6, <1>7, <1>8

(* Whether a member is over, from the rows of the window.                  *)
Above(rule, R, w, m) ==
    LET own == Tokens({r \in InWindow(R, w) : r.member = m})
        all == Tokens(InWindow(R, w))
    IN  IF rule.metric # "share_pct" THEN own >= rule.threshold
        ELSE Cardinality(MembersIn(R, w)) >= MinSharers /\ 100 * own >= rule.threshold * all /\ own > 0

LEMMA MarksAre ==
    ASSUME NEW R, RowsOk(R), NEW w, NEW rule \in AlertRule, NEW m, m # Placeholder
    PROVE  Marks(rule, R, w, m) <=> rule.member \in {NULL, m} /\ Above(rule, R, w, m)
<1>1. PICK u : u = Usage(R, w, m)
  OBVIOUS
<1>2. /\ u.tokens \in Nat /\ u.period.tokens \in Nat /\ u.tokens <= u.period.tokens
       /\ u.tokens = Tokens({r \in InWindow(R, w) : r.member = m})
       /\ u.period.tokens = Tokens(InWindow(R, w))
       /\ u.period.contributors = Cardinality(MembersIn(R, w))
  BY <1>1, UsageIs
<1>3. PICK own \in Nat : own = u.tokens
  BY <1>2
<1>4. PICK all \in Nat : all = u.period.tokens
  BY <1>2
<1>5. PICK n : n = u.period.contributors
  OBVIOUS
<1>6. /\ own = Tokens({r \in InWindow(R, w) : r.member = m}) /\ own = u.tokens
      /\ all = Tokens(InWindow(R, w)) /\ all = u.period.tokens /\ own <= all
      /\ n = Cardinality(MembersIn(R, w)) /\ n = u.period.contributors
  BY <1>2, <1>3, <1>4, <1>5
<1>7. PICK p, q \in Nat : p = MetricValue(rule.metric, u)[1] /\ q = MetricValue(rule.metric, u)[2]
  BY <1>6, ValueIs
<1>8. /\ rule.metric # "share_pct" => p = own /\ q = 1
      /\ rule.metric = "share_pct" /\ all > 0 => p = 100 * own /\ q = all
      /\ rule.metric = "share_pct" /\ all = 0 => p = 0 /\ q = 1
  BY <1>6, <1>7, ValueIs
<1>9. PICK th \in Nat : th = rule.threshold /\ th > 0
  BY BadgesAssumption
<1>10. CrossesThreshold(rule, u) <=> (rule.metric = "share_pct" => n >= MinSharers) /\ p >= th * q
  BY <1>6, <1>7, <1>9 DEF CrossesThreshold
<1>11. Above(rule, R, w, m) <=>
          IF rule.metric # "share_pct" THEN own >= th
          ELSE n >= MinSharers /\ 100 * own >= th * all /\ own > 0
  BY <1>6, <1>9 DEF Above
<1>12. own > 0 => m \in MembersIn(R, w)
  <2>1. m \notin MembersIn(R, w) => {r \in InWindow(R, w) : r.member = m} = {}
    BY DEF MembersIn
  <2>2. PICK T : T = {r \in InWindow(R, w) : r.member = m}
    OBVIOUS
  <2>3. own = Tokens(T) /\ (m \notin MembersIn(R, w) => T = {})
    BY <1>6, <2>1, <2>2
  <2> QED  BY <2>3, NoTokens
<1>13. CrossesThreshold(rule, u) <=> Above(rule, R, w, m)
  <2>1. CASE rule.metric # "share_pct"
    BY <1>8, <1>10, <1>11, <2>1
  <2>2. CASE rule.metric = "share_pct" /\ all = 0
    BY <1>6, <1>8, <1>9, <1>10, <1>11, <2>2
  <2>3. CASE rule.metric = "share_pct" /\ all # 0
    <3>1. p = 100 * own /\ q = all /\ all > 0
      BY <1>8, <2>3
    <3>2. th * all \in Nat /\ th * all > 0
      BY <1>9, <3>1, PositiveProduct
    <3>3. 100 * own >= th * all => own > 0
      BY <3>2
    <3> QED  BY <1>10, <1>11, <2>3, <3>1, <3>3
  <2> QED  BY <2>1, <2>2, <2>3
<1>14. Above(rule, R, w, m) => own > 0
  BY <1>9, <1>11
<1>15. Marks(rule, R, w, m) <=>
          m \in MembersIn(R, w) /\ rule.member \in {NULL, m} /\ CrossesThreshold(rule, u)
  BY <1>1 DEF Marks
<1> QED  BY <1>12, <1>13, <1>14, <1>15

(* What is kept of a sequence keeps its order.                             *)
Below(S, x) == {y \in S : y < x}
KeptAt(seq, S, at) ==
    /\ Lists(at, S) /\ Len(at) = Cardinality(S)
    /\ \A i, j \in DOMAIN at : i < j <=> at[i] < at[j]
    /\ \A i \in DOMAIN at : Cardinality(Below(S, at[i])) = i - 1
    /\ DOMAIN Kept(seq, S) = DOMAIN at /\ \A i \in DOMAIN at : Kept(seq, S)[i] = seq[at[i]]
LEMMA KeptPlaces ==
    ASSUME NEW seq, NEW S, IsFiniteSet(S), S \subseteq Int
    PROVE  \E at : KeptAt(seq, S, at)
<1> DEFINE R == {p \in S \X S : p[1] < p[2]}
<1>1. \A x, y \in S : <<x, y>> \in R <=> x < y
  OBVIOUS
<1>2. PICK at : at = InOrder(S, R)
  OBVIOUS
<1>3. Kept(seq, S) = [i \in DOMAIN at |-> seq[at[i]]]
  BY <1>2 DEF Kept
<1> HIDE DEF R
<1>4. Orders(R, S)
  <2>1. \A x \in S : <<x, x>> \notin R
    BY <1>1
  <2>2. \A x, y \in S : x = y \/ x < y \/ y < x
    OBVIOUS
  <2>3. \A x, y \in S : x = y \/ <<x, y>> \in R \/ <<y, x>> \in R
    BY <1>1, <2>2
  <2>4. \A x, y, z \in S : <<x, y>> \in R /\ <<y, z>> \in R => <<x, z>> \in R
    BY <1>1
  <2> QED  BY <2>1, <2>3, <2>4 DEF Orders
<1>5. /\ Lists(at, S) /\ Len(at) = Cardinality(S)
      /\ \A i \in DOMAIN at : Place(S, R, at[i]) = i - 1
      /\ \A i, j \in DOMAIN at : i < j <=> <<at[i], at[j]>> \in R
  BY <1>2, <1>4, InOrderLists
<1>6. ASSUME NEW x \in S PROVE Ahead(S, R, x) = Below(S, x)
  BY <1>1 DEF Ahead, Below
<1>7. \A i \in DOMAIN at : at[i] \in S
  BY <1>5, ListOfAll
<1>8. \A i \in DOMAIN at : Cardinality(Below(S, at[i])) = i - 1
  BY <1>5, <1>6, <1>7 DEF Place
<1>9. \A i, j \in DOMAIN at : i < j <=> at[i] < at[j]
  BY <1>1, <1>5, <1>7
<1>10. DOMAIN Kept(seq, S) = DOMAIN at /\ \A i \in DOMAIN at : Kept(seq, S)[i] = seq[at[i]]
  BY <1>3
<1> QED  BY <1>5, <1>8, <1>9, <1>10 DEF KeptAt

Page(w) == [range |-> [from |-> w.start, to |-> w.end], filter |-> [group |-> "all", source |-> NULL]]
LEMMA PageSelects ==
    ASSUME NEW R, NEW w
    PROVE  Selected(R, Page(w)) = InWindow(R, w)
<1>1. /\ Page(w).range.from = w.start /\ Page(w).range.to = w.end
      /\ Page(w).filter.group = "all" /\ Page(w).filter.source = NULL
  BY DEF Page
<1>2. \A r : Passes(r, Page(w).filter)
  BY <1>1 DEF Passes
<1> QED  BY <1>1, <1>2 DEF Selected, InWindow

(* One badge for each rule that a member is over, and no other.            *)
Marked(list, rule, m) == {i \in DOMAIN list : list[i].rule = rule /\ list[i].member = m}
LEMMA MarkedOnce ==
    ASSUME NEW R, RowsOk(R), NEW t \in Horizon, NEW list, Lists(list, States(R, t)),
           NEW rule \in AlertRule, NEW m, m # Placeholder
    PROVE  Cardinality(Marked(list, rule, m)) =
               IF rule.member \in {NULL, m} /\ Above(rule, R, WindowAt(rule.window, t), m) THEN 1 ELSE 0
<1>1. PICK w, s : w = WindowAt(rule.window, t) /\ s = State(rule, R, t, m)
  OBVIOUS
<1>2. Marks(rule, R, w, m) <=> rule.member \in {NULL, m} /\ Above(rule, R, w, m)
  BY MarksAre
<1>3. s.rule = rule /\ s.member = m
  BY <1>1, StateIs
<1>4. /\ \A i \in DOMAIN list : list[i] \in States(R, t)
      /\ \A x \in States(R, t) : \E i \in DOMAIN list : list[i] = x
      /\ \A i, j \in DOMAIN list : list[i] = list[j] => i = j
  BY ListOfAll DEF Lists
<1>5. ASSUME NEW i \in Marked(list, rule, m) PROVE i \in DOMAIN list /\ list[i] = s /\ Marks(rule, R, w, m)
  <2>1. i \in DOMAIN list /\ list[i].rule = rule /\ list[i].member = m /\ list[i] \in States(R, t)
    BY <1>4 DEF Marked
  <2>2. PICK r \in AlertRule : \E n \in MembersIn(R, WindowAt(r.window, t)) :
            Marks(r, R, WindowAt(r.window, t), n) /\ list[i] = State(r, R, t, n)
    BY <2>1, StatesAre
  <2>3. PICK n : Marks(r, R, WindowAt(r.window, t), n) /\ list[i] = State(r, R, t, n)
    BY <2>2
  <2>4. list[i].rule = r /\ list[i].member = n
    BY <2>3, StateIs
  <2> QED  BY <1>1, <2>1, <2>3, <2>4
<1>6. CASE Marks(rule, R, w, m)
  <2>1. s \in States(R, t)
    <3>1. m \in MembersIn(R, w)
      BY <1>6 DEF Marks
    <3> QED  BY <1>1, <1>6, <3>1, StatesAre
  <2>2. PICK i \in DOMAIN list : list[i] = s
    BY <1>4, <2>1
  <2>3. i \in Marked(list, rule, m)
    BY <1>3, <2>2 DEF Marked
  <2>4. Marked(list, rule, m) = {i}
    BY <1>4, <1>5, <2>2, <2>3
  <2> QED  BY <1>1, <1>2, <1>6, <2>4, FS_Singleton
<1>7. CASE ~Marks(rule, R, w, m)
  <2>1. Marked(list, rule, m) = {}
    BY <1>5, <1>7
  <2> QED  BY <1>1, <1>2, <1>7, <2>1, FS_EmptySet
<1> QED  BY <1>6, <1>7

(* A row's first badge is its most urgent.                                 *)
LEMMA FirstIsUrgent ==
    ASSUME NEW list, NEW S, Lists(list, S),
           \A i, j \in DOMAIN list : i < j => ~MoreUrgent(list[j], list[i]),
           NEW m \in DOMAIN ActiveByMember(list), NEW i \in DOMAIN ActiveByMember(list)[m], i > 1
    PROVE  ~MoreUrgent(ActiveByMember(list)[m][i], ActiveByMember(list)[m][1])
<1> DEFINE places == {j \in DOMAIN list : list[j].member = m}
<1>1. ActiveByMember(list)[m] = Kept(list, places)
  BY DEF ActiveByMember
<1>2. places \subseteq DOMAIN list /\ DOMAIN list \subseteq Int /\ IsFiniteSet(DOMAIN list)
  BY ListOfAll DEF Lists
<1> HIDE DEF places
<1>3. IsFiniteSet(places) /\ places \subseteq Int
  BY <1>2, FS_Subset
<1>4. PICK at : KeptAt(list, places, at)
  BY <1>3, KeptPlaces
<1>5. /\ Lists(at, places)
      /\ \A j, k \in DOMAIN at : j < k <=> at[j] < at[k]
      /\ DOMAIN Kept(list, places) = DOMAIN at
      /\ \A j \in DOMAIN at : Kept(list, places)[j] = list[at[j]]
  BY <1>4 DEF KeptAt
<1>6. i \in DOMAIN at /\ 1 \in DOMAIN at /\ 1 < i
  BY <1>1, <1>5 DEF Lists
<1>7. at[1] < at[i] /\ at[1] \in DOMAIN list /\ at[i] \in DOMAIN list
  BY <1>2, <1>5, <1>6, ListOfAll
<1> QED  BY <1>1, <1>5, <1>6, <1>7

LEMMA BadgesAreTrue ==
    ASSUME NEW db, DbOk(db), NEW t \in Horizon
    PROVE  BadgesAddUp(db, t)
<1> DEFINE R == db.rows
           list == ActiveAlertStates(R, t)
<1>1. RowsOk(R)
  BY DEF DbOk
<1>2. list = MostUrgent(States(R, t))
  BY DEF ActiveAlertStates, States
<1> HIDE DEF R, list
<1>3. /\ Lists(list, States(R, t))
      /\ \A i, j \in DOMAIN list : i < j => ~MoreUrgent(list[j], list[i])
  BY <1>1, <1>2, StatesAreOk, UrgentList
<1>4. ASSUME NEW i \in DOMAIN list
      PROVE  LET a == list[i]
             IN  /\ a.window.start <= t /\ t < a.window.end
                 /\ a.member # Placeholder
                 /\ a.fired <=> <<a.rule.id, a.member, a.window.start>> \in FireKeys
                 /\ a.rule.metric = "share_pct" => a.value[1] <= 100 * a.value[2]
  <2>1. list[i] \in States(R, t)
    BY <1>3, ListOfAll
  <2> QED  BY <1>1, <2>1, BadgeIsTrue
<1> DEFINE Own(w, m) == Tokens({r \in Selected(R, Page(w)) : r.member = m})
           All(w) == Totals(Selected(R, Page(w))).tokens
           Over(rule, m, w) ==
               IF rule.metric # "share_pct" THEN Own(w, m) >= rule.threshold
               ELSE /\ Cardinality({r.member : r \in Selected(R, Page(w))}) >= MinSharers
                    /\ 100 * Own(w, m) >= rule.threshold * All(w) /\ Own(w, m) > 0
<1>5. \A rule, m, w : Over(rule, m, w) <=> Above(rule, R, w, m)
  BY PageSelects DEF Above, MembersIn, Totals
<1>6. ASSUME NEW rule \in AlertRule, NEW m \in DOMAIN db.revoked \ {Placeholder}
      PROVE  LET w == WindowAt(rule.window, t)
                 marked == {i \in DOMAIN list : list[i].rule = rule /\ list[i].member = m}
             IN  Cardinality(marked) = IF rule.member \in {NULL, m} /\ Over(rule, m, w) THEN 1 ELSE 0
  <2>1. Cardinality(Marked(list, rule, m)) =
               IF rule.member \in {NULL, m} /\ Above(rule, R, WindowAt(rule.window, t), m) THEN 1 ELSE 0
    BY <1>1, <1>3, MarkedOnce
  <2> HIDE DEF Over
  <2> QED  BY <1>5, <2>1 DEF Marked
<1>7. LET by == ActiveByMember(list)
      IN  \A m \in DOMAIN by : \A i \in DOMAIN by[m] : ~(i > 1 /\ MoreUrgent(by[m][i], by[m][1]))
  BY <1>3, FirstIsUrgent
<1> DEFINE Part1 ==
             \A i \in DOMAIN list :
               LET a == list[i]
               IN  /\ a.window.start <= t /\ t < a.window.end
                   /\ a.member # Placeholder
                   /\ a.fired <=> <<a.rule.id, a.member, a.window.start>> \in FireKeys
                   /\ a.rule.metric = "share_pct" => a.value[1] <= 100 * a.value[2]
           Part2 ==
             \A rule \in AlertRule, m \in DOMAIN db.revoked \ {Placeholder} :
               LET w == WindowAt(rule.window, t)
                   marked == {i \in DOMAIN list : list[i].rule = rule /\ list[i].member = m}
               IN  Cardinality(marked) = IF rule.member \in {NULL, m} /\ Over(rule, m, w) THEN 1 ELSE 0
           Part3 ==
             LET by == ActiveByMember(list)
             IN  \A m \in DOMAIN by : \A i \in DOMAIN by[m] : ~(i > 1 /\ MoreUrgent(by[m][i], by[m][1]))
<1>8. Part1 /\ Part2 /\ Part3
  <2> HIDE DEF Over
  <2> QED  BY <1>4, <1>6, <1>7
<1>9. BadgesAddUp(db, t) <=> Part1 /\ Part2 /\ Part3
  BY DEF BadgesAddUp, Page, R, list
<1> QED  BY <1>8, <1>9

-----------------------------------------------------------------------------
(***************************************************************************)
(* Ranges: what a request asks for.                                        *)
(***************************************************************************)
(* A date, and where its day begins.                                       *)
LEMMA DateIs ==
    ASSUME NEW t \in Int, OffsetHere(t) \in (-DayLong) .. DayLong
    PROVE  /\ DateHere(t) \in Int
           /\ (DateHere(t) - 1) * DayLong <= t /\ t < (DateHere(t) + 2) * DayLong
<1>1. PICK o, D \in Int : o = OffsetHere(t) /\ D = DayLong /\ D > 0 /\ -D <= o /\ o <= D
  BY QueriesAssumption
<1>2. PICK d \in Int : d = (t + o) \div D /\ d * D \in Int /\ d * D <= t + o /\ t + o < d * D + D
  BY <1>1, Quotient
<1>3. D * d = d * D /\ D * (d - 1) = D * d - D * 1 /\ D * (d + 2) = D * d + D * 2 /\ D * 1 = D /\ D * 2 = D + D
  BY Distributes
<1>4. (d - 1) * D = d * D - D /\ (d + 2) * D = d * D + D + D
  <2>1. (d - 1) * D = D * (d - 1) /\ (d + 2) * D = D * (d + 2)
    OBVIOUS
  <2>2. PICK x \in Int : x = d * D
    BY <1>2
  <2> QED  BY <1>3, <2>1, <2>2
<1>5. DateHere(t) = d
  BY <1>1, <1>2 DEF DateHere
<1>6. PICK x \in Int : x = d * D
  BY <1>2
<1>7. PICK y, z \in Int : y = (d - 1) * D /\ z = (d + 2) * D /\ y = x - D /\ z = x + D + D
  <2>1. x - D \in Int /\ x + D + D \in Int
    OBVIOUS
  <2> QED  BY <1>4, <1>6, <2>1
<1>8. y <= t /\ t < z
  BY <1>1, <1>2, <1>6, <1>7
<1> QED  BY <1>1, <1>5, <1>8, <1>7

AskedSpan(d) == (d - 1) * DayLong .. (d + 1) * DayLong
LEMMA MidnightIs ==
    ASSUME NEW d \in Int, \A t \in AskedSpan(d) : OffsetHere(t) \in (-DayLong) .. DayLong
    PROVE  Midnight(d) \in AskedSpan(d) /\ Midnight(d) \in Int
<1>1. PICK D \in Int : D = DayLong /\ D > 0
  BY QueriesAssumption
<1>2. PICK a, b, x \in Int : a = (d - 1) * D /\ b = (d + 1) * D /\ x = d * D
  BY Distributes
<1>3. a = x - D /\ b = x + D
  <2>1. D * d = d * D /\ D * (d - 1) = D * d - D * 1 /\ D * (d + 1) = D * d + D * 1 /\ D * 1 = D
    BY Distributes
  <2>2. (d - 1) * D = D * (d - 1) /\ (d + 1) * D = D * (d + 1)
    OBVIOUS
  <2> QED  BY <1>2, <2>1, <2>2
<1> DEFINE S == {t \in AskedSpan(d) : DateHere(t) >= d}
<1>4. AskedSpan(d) = a .. b
  BY <1>1, <1>2 DEF AskedSpan
<1>5. b \in S
  <2>1. b \in AskedSpan(d)
    BY <1>1, <1>3, <1>4
  <2>2. PICK o \in Int : o = OffsetHere(b) /\ -D <= o /\ o <= D
    BY <1>1, <2>1
  <2>3. d * D <= b + o
    BY <1>2, <1>3, <2>2
  <2>4. d <= (b + o) \div D
    BY <1>1, <2>3, QuotientAtLeast
  <2>5. DateHere(b) = (b + o) \div D
    BY <1>1, <2>2 DEF DateHere
  <2>6. (b + o) \div D \in Int
    BY <1>1, Quotient
  <2> QED  BY <2>1, <2>4, <2>5, <2>6
<1>6. IsFiniteSet(S) /\ S \subseteq Int
  <2>1. IsFiniteSet(a .. b) /\ a .. b \subseteq Int
    BY FS_Interval
  <2>2. S \subseteq a .. b
    BY <1>4
  <2> HIDE DEF S
  <2>3. IsFiniteSet(S)
    BY <2>1, <2>2, FS_Subset
  <2> QED  BY <2>1, <2>2, <2>3
<1>7. Midnight(d) = Min(S)
  BY DEF Midnight, AskedSpan
<1>8. S \subseteq AskedSpan(d)
  OBVIOUS
<1> HIDE DEF S
<1>9. Min(S) \in S
  BY <1>5, <1>6, SomeIsLeast
<1> QED  BY <1>6, <1>7, <1>8, <1>9

(* Between two days that may be asked for there are no more buckets than a *)
(* grid may have.                                                          *)
LEMMA GridIsWhole ==
    ASSUME NEW range, NEW from \in Int, NEW to \in Int, range.from = from, range.to = to, NEW offset \in Int,
           NEW c \in Asked, NEW d \in Asked, c \in Int, d \in Int,
           (c - 1) * DayLong <= from, to <= (d + 2) * DayLong
    PROVE  Whole(range, ResolveBucket(range), offset) <= MaxGrid
<1>1. PICK w \in Int : w = ResolveBucket(range) /\ w > 0
  BY QueriesAssumption DEF ResolveBucket
<1>2. PICK k \in Int : k = (from + offset) \div w /\ k * w \in Int /\ from + offset < k * w + w
  <2>1. from + offset \in Int /\ w \in Nat
    BY <1>1
  <2> QED  BY <1>1, <2>1, Quotient
<1>3. PICK kw \in Int : kw = k * w
  BY <1>2
<1>4. PICK first \in Int : first = kw - offset /\ from < first + w
  <2>1. kw - offset \in Int /\ from < kw - offset + w
    BY <1>2, <1>3
  <2> QED  BY <2>1
<1>5. BucketStart(range.from, w, offset) = first
  BY <1>2, <1>4, <1>3 DEF BucketStart
<1>6. PICK n \in Int : n = (to - first + w - 1) \div w /\ n * w \in Int /\ n * w <= to - first + w - 1
  BY <1>1, Quotient
<1>7. Whole(range, w, offset) = n
  BY <1>5, <1>6 DEF Whole
<1>8. PICK nw \in Int : nw = n * w /\ nw <= to - from + w + w - 2
  BY <1>4, <1>6
<1>9. ASSUME NEW m \in Int, m = MaxGrid, n > m PROVE w * m + w <= nw
  <2>1. PICK j \in Nat : n = m + (1 + j)
    <3>1. n - m - 1 \in Nat /\ n = m + (1 + (n - m - 1))
      BY <1>9
    <3> QED  BY <3>1
  <2>2. w * n = w * m + w * (1 + j) /\ w * (1 + j) = w * 1 + w * j /\ w * 1 = w /\ w * m \in Int /\ w * j \in Int
    BY <2>1, Distributes
  <2>3. w * j >= 0
    BY <1>1
  <2>4. n * w = w * n
    OBVIOUS
  <2>5. PICK x, y \in Int : x = w * m /\ y = w * j /\ y >= 0
    BY <2>2, <2>3
  <2> QED  BY <1>8, <2>2, <2>4, <2>5
<1>10. PICK m \in Int : m = MaxGrid
  BY ChartsAssumption
<1>11. CASE to - from < HourlyUnder
  <2>1. w = Hour
    BY <1>1, <1>11 DEF ResolveBucket
  <2>2. PICK hu, x \in Int : hu = HourlyUnder /\ x = w * m /\ hu + w + w <= x
    <3>1. HourlyUnder + 2 * Hour <= MaxGrid * Hour
      BY DashboardDays
    <3>2. w * m = m * w /\ w * m \in Int /\ 2 * w = w + w
      OBVIOUS
    <3>3. HourlyUnder \in Int
      BY QueriesAssumption
    <3> QED  BY <1>10, <2>1, <3>1, <3>2, <3>3
  <2>3. nw < x
    BY <1>8, <1>11, <2>2
  <2>4. ~(n > m)
    BY <1>1, <1>9, <1>10, <2>2, <2>3
  <2> QED  BY <1>1, <1>7, <1>10, <2>4
<1>12. CASE ~(to - from < HourlyUnder)
  <2>1. w = DayLong
    BY <1>1, <1>12 DEF ResolveBucket
  <2>2. d - c + 5 <= m
    BY <1>10, DashboardDays
  <2>3. PICK x, y, z \in Int : x = w * (d + 2) /\ y = w * (c - 1) /\ z = w * (d - c + 3)
    BY Distributes
  <2>4. z = x - y
    <3>1. w * ((d + 2) - (c - 1)) = w * (d + 2) - w * (c - 1) /\ (d + 2) - (c - 1) = d - c + 3
      BY Distributes
    <3> QED  BY <2>3, <3>1
  <2>5. y <= from /\ to <= x
    <3>1. (c - 1) * w = w * (c - 1) /\ (d + 2) * w = w * (d + 2)
      OBVIOUS
    <3> QED  BY <2>1, <2>3, <3>1
  <2>6. nw <= z + w + w - 2
    BY <1>8, <2>4, <2>5
  <2>7. PICK mw \in Int : mw = w * m
    BY Distributes
  <2>8. z + w + w <= mw
    <3>1. PICK j \in Nat : m = (d - c + 3) + (2 + j)
      <4>1. m - (d - c + 5) \in Nat /\ m = (d - c + 3) + (2 + (m - (d - c + 5)))
        BY <2>2
      <4> QED  BY <4>1
    <3>2. w * m = w * (d - c + 3) + w * (2 + j) /\ w * (2 + j) = w * 2 + w * j /\ w * 2 = w + w
          /\ w * j \in Int
      BY <3>1, Distributes
    <3>3. w * j >= 0
      BY <1>1
    <3>4. PICK v \in Int : v = w * j /\ v >= 0
      BY <3>2, <3>3
    <3> QED  BY <2>3, <2>7, <3>2, <3>4
  <2>9. ~(n > m)
    <3> SUFFICES ASSUME n > m PROVE FALSE
      OBVIOUS
    <3>1. mw + w <= nw
      BY <1>9, <1>10, <2>7
    <3> QED  BY <1>1, <2>6, <2>8, <3>1
  <2> QED  BY <1>1, <1>7, <1>10, <2>9
<1> QED  BY <1>11, <1>12

LEMMA DayIs ==
    ASSUME NEW t \in Horizon
    PROVE  /\ t \in Int /\ OffsetHere(t) \in (-DayLong) .. DayLong /\ OffsetHere(t) \in Int
           /\ DateHere(t) \in Int
           /\ \A p \in DOMAIN PresetDays : DateHere(t) - PresetDays[p] \in Asked
           /\ DateHere(t) - CustomDays \in Asked /\ DateHere(t) + 1 \in Asked /\ DateHere(t) \in Asked
<1>1. t \in Int
  BY DashboardAssumption
<1>2. OffsetHere(t) \in (-DayLong) .. DayLong
  BY DashboardDays
<1>3. OffsetHere(t) \in Int
  BY <1>2, QueriesAssumption
<1>4. DateHere(t) \in Int
  BY <1>1, <1>2, DateIs
<1> DEFINE N == {PresetDays[p] : p \in DOMAIN PresetDays} \cup {-1, 0, CustomDays}
           A == {DateHere(s) - n : s \in Horizon, n \in N}
<1>5. A \subseteq Asked
  BY DEF Asked
<1>6. \A n \in N : DateHere(t) - n \in A
  OBVIOUS
<1> HIDE DEF A
<1>7. \A n \in N : DateHere(t) - n \in Asked
  BY <1>5, <1>6
<1>8. \A p \in DOMAIN PresetDays : PresetDays[p] \in N
  OBVIOUS
<1>9. -1 \in N /\ 0 \in N /\ CustomDays \in N
  OBVIOUS
<1> HIDE DEF N
<1>10. DateHere(t) - (-1) = DateHere(t) + 1 /\ DateHere(t) - 0 = DateHere(t)
  BY <1>4
<1> QED  BY <1>1, <1>2, <1>3, <1>4, <1>7, <1>8, <1>9, <1>10

LEMMA AskedAreDays ==
    ASSUME NEW d \in Asked
    PROVE  d \in Int /\ \A t \in AskedSpan(d) : OffsetHere(t) \in (-DayLong) .. DayLong
<1>1. \A t \in AskedSpan(d) : OffsetHere(t) \in (-DayLong) .. DayLong
  BY DashboardDays DEF AskedSpan
<1> DEFINE N == {PresetDays[p] : p \in DOMAIN PresetDays} \cup {-1, 0, CustomDays}
           A == {DateHere(s) - n : s \in Horizon, n \in N}
           B == UNION {{e[1], e[2] + 1} : e \in Dates \ {NULL}}
<1>2. d \in A \/ d \in B
  BY DEF Asked
<1>3. CASE d \in A
  <2>1. PICK s \in Horizon, n \in N : d = DateHere(s) - n
    BY <1>3
  <2>2. n \in Int
    BY DashboardDays
  <2>3. DateHere(s) \in Int
    BY DayIs
  <2> QED  BY <1>1, <2>1, <2>2, <2>3
<1>4. CASE d \in B
  <2>1. PICK e \in Dates \ {NULL} : d \in {e[1], e[2] + 1}
    BY <1>4
  <2>2. e[1] \in Int /\ e[2] \in Int
    BY DashboardDays
  <2> QED  BY <1>1, <2>1, <2>2
<1> QED  BY <1>2, <1>3, <1>4

(* What a tab may ask for.                                                 *)
RangeOk(t) ==
    /\ t.preset \in DOMAIN PresetDays \cup {"custom"} /\ t.asOf \in Horizon
    /\ t.dates # NULL => {t.dates[1], t.dates[2] + 1} \subseteq Asked

LEMMA RequestIs ==
    ASSUME NEW t, RangeOk(t), Request(t) # NULL
    PROVE  QOk(Request(t))
<1>1. PICK range : range = RangeOf(t)
  OBVIOUS
<1>2. PICK q : q = [range |-> range, filter |-> t.selection, offset |-> OffsetHere(range.to)]
  OBVIOUS
<1>3. range # NULL /\ Request(t) = q
  BY <1>1, <1>2 DEF Request
<1>4. q.range = range /\ q.offset = OffsetHere(range.to)
  BY <1>2
<1>5. \E c \in Asked : \E d \in Asked :
         /\ range.from \in Int /\ range.to \in Int /\ q.offset \in Int
         /\ (c - 1) * DayLong <= range.from /\ range.to <= (d + 2) * DayLong
  <2>1. CASE t.preset = "custom"
    <3>1. t.dates # NULL /\ range = CustomRange(t.dates)
      BY <1>1, <1>3, <2>1 DEF RangeOf, CustomRange
    <3>2. PICK c, d : c = t.dates[1] /\ d = t.dates[2] + 1
      OBVIOUS
    <3>3. c \in Asked /\ d \in Asked
      BY <3>1, <3>2 DEF RangeOk
    <3>4. range = [from |-> Midnight(c), to |-> Midnight(d)]
      BY <1>3, <3>1, <3>2 DEF CustomRange
    <3>5. range.from = Midnight(c) /\ range.to = Midnight(d)
      BY <3>4
    <3>6. c \in Int /\ d \in Int /\ Midnight(c) \in AskedSpan(c) /\ Midnight(c) \in Int
          /\ Midnight(d) \in AskedSpan(d) /\ Midnight(d) \in Int
      BY <3>3, AskedAreDays, MidnightIs
    <3>7. OffsetHere(Midnight(d)) \in (-DayLong) .. DayLong
      BY <3>3, <3>6, AskedAreDays
    <3>8. OffsetHere(Midnight(d)) \in Int
      BY <3>7, QueriesAssumption
    <3>9. PICK D \in Int : D = DayLong /\ D > 0
      BY QueriesAssumption
    <3>10. (c - 1) * DayLong <= Midnight(c)
      BY <3>6 DEF AskedSpan
    <3>11. Midnight(d) <= (d + 1) * DayLong
      BY <3>6 DEF AskedSpan
    <3>12. D * (d + 2) = D * (d + 1) + D * 1 /\ D * 1 = D /\ D * (d + 1) \in Int
      <4>1. PICK g \in Int : g = d + 1 /\ d + 2 = g + 1
        BY <3>6
      <4>2. D * (g + 1) = D * g + D * 1 /\ D * g \in Int /\ D * 1 = D
        BY Distributes
      <4> QED  BY <4>1, <4>2
    <3>13. (d + 2) * D = D * (d + 2) /\ (d + 1) * D = D * (d + 1)
      BY <3>6
    <3>14. Midnight(d) <= (d + 2) * DayLong
      <4>1. PICK x \in Int : x = D * (d + 1)
        BY <3>12
      <4> QED  BY <3>6, <3>9, <3>11, <3>12, <3>13, <4>1
    <3> QED  BY <1>4, <3>3, <3>5, <3>6, <3>8, <3>10, <3>14
  <2>2. CASE t.preset # "custom"
    <3>1. PICK s, n : s = t.asOf /\ n = PresetDays[t.preset]
      OBVIOUS
    <3>2. t.preset \in DOMAIN PresetDays /\ s \in Horizon
      BY <2>2, <3>1 DEF RangeOk
    <3>3. range = [from |-> LocalDaysAgo(s, n), to |-> s]
      BY <1>1, <2>2, <3>1 DEF RangeOf
    <3>4. range.from = LocalDaysAgo(s, n) /\ range.to = s
      BY <3>3
    <3>5. PICK c, d : c = DateHere(s) - n /\ d = DateHere(s)
      OBVIOUS
    <3>6. c \in Asked /\ d \in Asked /\ s \in Int /\ d \in Int /\ OffsetHere(s) \in Int
          /\ OffsetHere(s) \in (-DayLong) .. DayLong
      BY <3>1, <3>2, <3>5, DayIs
    <3>7. range.from = Midnight(c)
      BY <3>4, <3>5 DEF LocalDaysAgo
    <3>8. c \in Int /\ Midnight(c) \in AskedSpan(c) /\ Midnight(c) \in Int
      BY <3>6, AskedAreDays, MidnightIs
    <3>9. (c - 1) * DayLong <= Midnight(c)
      BY <3>8 DEF AskedSpan
    <3>10. s < (d + 2) * DayLong
      BY <3>5, <3>6, DateIs
    <3>11. s <= (d + 2) * DayLong
      <4>1. DayLong \in Int
        BY QueriesAssumption
      <4> QED  BY <3>6, <3>10, <4>1
    <3> QED  BY <1>4, <3>4, <3>6, <3>7, <3>8, <3>9, <3>11
  <2> QED  BY <2>1, <2>2
<1>6. PICK c \in Asked : \E d \in Asked :
         /\ range.from \in Int /\ range.to \in Int /\ q.offset \in Int
         /\ (c - 1) * DayLong <= range.from /\ range.to <= (d + 2) * DayLong
  BY <1>5
<1>7. PICK d \in Asked :
         /\ range.from \in Int /\ range.to \in Int /\ q.offset \in Int
         /\ (c - 1) * DayLong <= range.from /\ range.to <= (d + 2) * DayLong
  BY <1>6
<1>8. c \in Int /\ d \in Int
  BY AskedAreDays
<1>9. Whole(range, ResolveBucket(range), q.offset) <= MaxGrid
  BY <1>7, <1>8, GridIsWhole
<1> QED  BY <1>3, <1>4, <1>7, <1>9 DEF QOk

-----------------------------------------------------------------------------
(***************************************************************************)
(* Colours: what slot each member has.                                     *)
(***************************************************************************)
LEMMA RemainderOf ==
    ASSUME NEW k \in Int, NEW w \in Nat, NEW s \in Int, 0 <= s, s < w
    PROVE  (k * w + s) % w = s
<1>1. PICK a \in Int : a = k * w + s
  OBVIOUS
<1>2. k <= a \div w
  <2>1. k * w <= a
    BY <1>1
  <2> QED  BY <1>1, <2>1, QuotientAtLeast
<1>3. PICK d, r \in Int : d = a \div w /\ r = a % w /\ a = d * w + r /\ 0 <= r /\ r < w
  OBVIOUS
<1>4. CASE d = k
  <2>1. PICK x \in Int : x = k * w
    BY Distributes
  <2> QED  BY <1>1, <1>3, <1>4, <2>1
<1>5. CASE d # k
  <2>1. PICK j \in Nat : d = k + (1 + j)
    <3>1. d - k - 1 \in Nat /\ d = k + (1 + (d - k - 1))
      BY <1>2, <1>3, <1>5
    <3> QED  BY <3>1
  <2>2. w * d = w * k + w * (1 + j) /\ w * (1 + j) = w * 1 + w * j /\ w * 1 = w /\ w * k \in Int /\ w * j \in Int
    BY <2>1, Distributes
  <2>3. w * j >= 0 /\ d * w = w * d /\ k * w = w * k
    OBVIOUS
  <2>4. PICK x, y \in Int : x = w * k /\ y = w * j /\ y >= 0
    BY <2>2, <2>3
  <2> QED  BY <1>1, <1>3, <2>2, <2>3, <2>4
<1> QED  BY <1>4, <1>5

(* Going round the palette reaches every slot.                             *)
LEMMA RoundReaches ==
    ASSUME NEW h \in Nat, NEW w \in Nat, NEW s \in Int, 0 <= s, s < w
    PROVE  \E step \in 0 .. w - 1 : (h + step) % w = s
<1>1. PICK d, r \in Int : h = d * w + r /\ 0 <= r /\ r < w
  <2>1. /\ h \div w \in Int /\ h % w \in Int /\ h = (h \div w) * w + (h % w) /\ 0 <= h % w /\ h % w < w
    OBVIOUS
  <2> QED  BY <2>1
<1>2. CASE r <= s
  <2>1. PICK step \in 0 .. w - 1 : step = s - r
    BY <1>1, <1>2
  <2>2. h + step = d * w + s
    <3>1. PICK x \in Int : x = d * w
      BY Distributes
    <3> QED  BY <1>1, <2>1, <3>1
  <2> QED  BY <2>2, RemainderOf
<1>3. CASE ~(r <= s)
  <2>1. PICK step \in 0 .. w - 1 : step = s - r + w
    BY <1>1, <1>3
  <2>2. PICK e \in Int : e = d + 1
    OBVIOUS
  <2>3. w * e = w * d + w * 1 /\ w * 1 = w /\ w * d = d * w /\ w * e = e * w
    BY <2>2, Distributes
  <2>4. h + step = e * w + s
    <3>1. PICK x \in Int : x = d * w
      BY Distributes
    <3> QED  BY <1>1, <2>1, <2>3, <3>1
  <2> QED  BY <2>4, RemainderOf
<1> QED  BY <1>2, <1>3

Palette == 0 .. SlotCount - 1

(* While one is left, a slot is found that is not taken.                   *)
LEMMA FreeSlotIs ==
    ASSUME NEW m, Hash(m) \in Nat, NEW taken, taken \subseteq Palette, Cardinality(taken) < SlotCount
    PROVE  FreeSlot(m, taken) \in Palette /\ FreeSlot(m, taken) \notin taken
<1>1. PICK h, w \in Nat : h = Hash(m) /\ w = SlotCount /\ w > 0
  BY ChartsAssumption
<1>2. IsFiniteSet(Palette) /\ Cardinality(Palette) = w
  <2>1. IsFiniteSet(0 .. w - 1) /\ Cardinality(0 .. w - 1) = (w - 1) - 0 + 1
    <3>1. w - 1 \in Int /\ 0 <= w - 1
      BY <1>1
    <3> QED  BY <3>1, FS_Interval
  <2> QED  BY <1>1, <2>1 DEF Palette
<1>3. PICK s \in Palette : s \notin taken
  <2>1. taken # Palette
    BY <1>1, <1>2
  <2> QED  BY <2>1
<1>4. s \in Int /\ 0 <= s /\ s < w
  BY <1>1, <1>3 DEF Palette
<1> DEFINE Free == {step \in 0 .. w - 1 : (h + step) % w \notin taken}
<1>5. Free # {}
  <2>1. PICK step \in 0 .. w - 1 : (h + step) % w = s
    BY <1>4, RoundReaches
  <2> QED  BY <1>3, <2>1
<1>6. Free \subseteq Nat
  OBVIOUS
<1>7. PICK step \in Free : \A n \in Free : step <= n
  <2> HIDE DEF Free
  <2> QED  BY <1>5, <1>6, NatHasLeast
<1>8. step \in 0 .. w - 1 /\ (h + step) % w \notin taken
  BY <1>7
<1>9. \A n \in 0 .. step - 1 : (h + n) % w \in taken
  <2> SUFFICES ASSUME NEW n \in 0 .. step - 1, (h + n) % w \notin taken PROVE FALSE
    OBVIOUS
  <2>1. n \in 0 .. w - 1 /\ n < step
    BY <1>8
  <2>2. n \in Free
    BY <2>1
  <2> QED  BY <1>7, <2>1, <2>2
<1> HIDE DEF Free
<1>10. (h + step) % w \in 0 .. w - 1
  BY <1>1, <1>8
<1> DEFINE Good(x) == \E st \in 0 .. SlotCount - 1 :
                        /\ x = (Hash(m) + st) % SlotCount /\ x \notin taken
                        /\ \A n \in 0 .. st - 1 : (Hash(m) + n) % SlotCount \in taken
<1>11. Good((h + step) % w) /\ (h + step) % w \in 0 .. SlotCount - 1
  BY <1>1, <1>8, <1>9, <1>10
<1>12. FreeSlot(m, taken) = CHOOSE x \in 0 .. SlotCount - 1 : Good(x)
  BY DEF FreeSlot
<1>13. \A x : Good(x) => x \notin taken
  OBVIOUS
<1> HIDE DEF Good
<1>14. FreeSlot(m, taken) \in 0 .. SlotCount - 1 /\ Good(FreeSlot(m, taken))
  BY <1>11, <1>12
<1> QED  BY <1>13, <1>14 DEF Palette

(* The slots taken before each member of a list.                           *)
TakenNext(m, taken) ==
    LET all == taken \cup {FreeSlot(m, taken)}
    IN  IF Cardinality(all) = SlotCount THEN {} ELSE all
TakenStep(joined, f, n) == IF n = 0 THEN {} ELSE TakenNext(joined[n], f[n - 1])
TakenBy(f, joined, k) == f = [n \in 0 .. k |-> TakenStep(joined, f, n)]

LEMMA TakenExists ==
    ASSUME NEW joined, NEW k \in Nat
    PROVE  \E f : TakenBy(f, joined, k)
<1> DEFINE C == {n \in Nat : \E f : TakenBy(f, joined, n)}
<1>1. 0 \in C
  <2> DEFINE f == [n \in 0 .. 0 |-> {}]
  <2>1. f = [n \in 0 .. 0 |-> TakenStep(joined, f, n)]
    <3>1. \A n \in 0 .. 0 : TakenStep(joined, f, n) = {}
      BY DEF TakenStep
    <3> QED  BY <3>1
  <2> QED  BY <2>1 DEF TakenBy
<1>2. ASSUME NEW n \in Nat, n \in C PROVE n + 1 \in C
  <2>1. PICK f : TakenBy(f, joined, n)
    BY <1>2
  <2>2. f = [i \in 0 .. n |-> TakenStep(joined, f, i)]
    BY <2>1 DEF TakenBy
  <2>3. PICK next : next = TakenNext(joined[n + 1], f[n])
    OBVIOUS
  <2> DEFINE g == [i \in 0 .. n + 1 |-> IF i = n + 1 THEN next ELSE f[i]]
  <2>4. \A i \in 0 .. n : f[i] = TakenStep(joined, f, i)
    BY <2>2
  <2>5. ASSUME NEW i \in 0 .. n + 1 PROVE g[i] = TakenStep(joined, g, i)
    <3>1. CASE i = 0
      BY <2>4, <3>1 DEF TakenStep
    <3>2. CASE i \in 1 .. n
      <4>1. i - 1 \in 0 .. n + 1 /\ i - 1 # n + 1 /\ i # n + 1 /\ i # 0
        BY <3>2
      <4>2. g[i - 1] = f[i - 1] /\ g[i] = f[i]
        BY <4>1
      <4> QED  BY <2>4, <3>2, <4>1, <4>2 DEF TakenStep
    <3>3. CASE i = n + 1
      <4>1. i - 1 = n /\ n \in 0 .. n + 1 /\ n # n + 1 /\ i # 0
        BY <3>3
      <4>2. g[i - 1] = f[n] /\ g[i] = next
        BY <3>3, <4>1
      <4> QED  BY <2>3, <3>3, <4>1, <4>2 DEF TakenStep
    <3> QED  BY <3>1, <3>2, <3>3
  <2>6. g = [i \in 0 .. n + 1 |-> g[i]]
    OBVIOUS
  <2> HIDE DEF g
  <2>7. g = [i \in 0 .. n + 1 |-> TakenStep(joined, g, i)]
    BY <2>5, <2>6
  <2> QED  BY <2>7 DEF TakenBy
<1> HIDE DEF C
<1>3. k \in C
  BY <1>1, <1>2, ByNumber
<1> QED  BY <1>3 DEF C

LEMMA SlotsAre ==
    ASSUME NEW joined, Len(joined) \in Nat, DOMAIN joined = 1 .. Len(joined)
    PROVE  \E f : /\ TakenBy(f, joined, Len(joined))
                  /\ AssignSlots(joined) = [i \in DOMAIN joined |-> FreeSlot(joined[i], f[i - 1])]
<1> DEFINE taken[n \in 0..Len(joined)] ==
             IF n = 0 THEN {}
             ELSE LET all == taken[n - 1] \cup {FreeSlot(joined[n], taken[n - 1])}
                  IN  IF Cardinality(all) = SlotCount THEN {} ELSE all
           Is(f) == f = [n \in 0 .. Len(joined) |->
             IF n = 0 THEN {}
             ELSE LET all == f[n - 1] \cup {FreeSlot(joined[n], f[n - 1])}
                  IN  IF Cardinality(all) = SlotCount THEN {} ELSE all]
<1>1. \A f : Is(f) <=> TakenBy(f, joined, Len(joined))
  BY DEF TakenBy, TakenStep, TakenNext
<1>2. taken = CHOOSE f : Is(f)
  BY Zenon
<1>3. AssignSlots(joined) = [i \in DOMAIN joined |-> FreeSlot(joined[i], taken[i - 1])]
  BY DEF AssignSlots
<1> HIDE DEF Is, taken
<1>4. TakenBy(taken, joined, Len(joined))
  BY <1>1, <1>2, TakenExists
<1> QED  BY <1>3, <1>4

(* Members of a palette each have their own slot.                          *)
LEMMA SlotsDiffer ==
    ASSUME NEW joined, Len(joined) \in Nat, DOMAIN joined = 1 .. Len(joined), Len(joined) <= SlotCount,
           \A i \in DOMAIN joined : Hash(joined[i]) \in Nat
    PROVE  IsInjective(AssignSlots(joined)) /\ DOMAIN AssignSlots(joined) = DOMAIN joined
<1>1. PICK L \in Nat : L = Len(joined)
  OBVIOUS
<1>2. PICK w \in Nat : L = Len(joined) /\ w = SlotCount /\ w > 0 /\ L <= w
  BY <1>1, ChartsAssumption
<1>3. PICK taken : /\ TakenBy(taken, joined, L)
                   /\ AssignSlots(joined) = [i \in DOMAIN joined |-> FreeSlot(joined[i], taken[i - 1])]
  BY <1>2, SlotsAre
<1>4. PICK slots : slots = AssignSlots(joined)
  OBVIOUS
<1>5. DOMAIN slots = 1 .. L /\ \A i \in 1 .. L : slots[i] = FreeSlot(joined[i], taken[i - 1])
  BY <1>2, <1>3, <1>4
<1>6. \A n \in 0 .. L : taken[n] = TakenStep(joined, taken, n)
  BY <1>3 DEF TakenBy
<1> DEFINE Good(n) == /\ taken[n] \subseteq Palette /\ Cardinality(taken[n]) = n
                      /\ \A i \in 1 .. n : slots[i] \in taken[n]
           C == {n \in Nat : n < w /\ n <= L => Good(n)}
<1>7. 0 \in C
  <2>1. taken[0] = {}
    BY <1>6 DEF TakenStep
  <2> QED  BY <2>1, FS_EmptySet
<1>8. ASSUME NEW n \in Nat, n < w, n + 1 <= L, Good(n)
      PROVE  slots[n + 1] \in Palette /\ slots[n + 1] \notin taken[n]
  <2>1. n + 1 \in 1 .. L /\ (n + 1) - 1 = n
    BY <1>8
  <2>2. slots[n + 1] = FreeSlot(joined[n + 1], taken[n]) /\ Hash(joined[n + 1]) \in Nat
    BY <1>2, <1>5, <2>1
  <2>3. taken[n] \subseteq Palette /\ Cardinality(taken[n]) < SlotCount
    BY <1>2, <1>8
  <2> HIDE DEF Good
  <2> QED  BY <2>2, <2>3, FreeSlotIs
<1>9. ASSUME NEW n \in Nat, n \in C PROVE n + 1 \in C
  <2> SUFFICES ASSUME n + 1 < w, n + 1 <= L PROVE Good(n + 1)
    OBVIOUS
  <2>1. Good(n)
    BY <1>9
  <2>2. PICK s : s = slots[n + 1] /\ s \in Palette /\ s \notin taken[n]
    BY <1>8, <2>1
  <2>3. n + 1 \in 1 .. L /\ (n + 1) - 1 = n /\ n + 1 # 0 /\ n + 1 \in 0 .. L
    OBVIOUS
  <2>4. s = FreeSlot(joined[n + 1], taken[n])
    BY <1>5, <2>2, <2>3
  <2>5. taken[n + 1] = TakenNext(joined[n + 1], taken[n])
    BY <1>6, <2>3 DEF TakenStep
  <2> DEFINE all == taken[n] \cup {s}
  <2>6. IsFiniteSet(taken[n])
    <3>1. IsFiniteSet(Palette)
      <4>1. w - 1 \in Int
        OBVIOUS
      <4> QED  BY <1>2, <4>1, FS_Interval DEF Palette
    <3> QED  BY <2>1, <3>1, FS_Subset
  <2>7. Cardinality(all) = n + 1
    <3>1. PICK T : T = taken[n] /\ Cardinality(T) = n /\ s \notin T /\ IsFiniteSet(T)
      BY <2>1, <2>2, <2>6
    <3>2. Cardinality(T \cup {s}) = Cardinality(T) + 1
      BY <3>1, FS_AddElement
    <3> QED  BY <3>1, <3>2
  <2>8. taken[n + 1] = all
    BY <1>2, <2>4, <2>5, <2>7 DEF TakenNext
  <2>9. \A i \in 1 .. n + 1 : slots[i] \in all
    <3>1. \A i \in 1 .. n + 1 : i \in 1 .. n \/ i = n + 1
      OBVIOUS
    <3> QED  BY <2>1, <2>2, <3>1
  <2> QED  BY <2>1, <2>2, <2>7, <2>8, <2>9
<1> HIDE DEF C
<1>10. \A n \in Nat : n \in C
  BY <1>7, <1>9, ByNumber
<1>11. \A n \in Nat : n < w /\ n <= L => Good(n)
  BY <1>10 DEF C
<1>12. ASSUME NEW i \in 1 .. L, NEW j \in 1 .. L, i < j PROVE slots[i] # slots[j]
  <2>1. PICK n \in Nat : n = j - 1 /\ n + 1 = j /\ n < w /\ n <= L /\ i \in 1 .. n
    <3>1. j - 1 \in Nat /\ (j - 1) + 1 = j /\ j - 1 < w /\ j - 1 <= L /\ i \in 1 .. j - 1
      BY <1>2, <1>12
    <3> QED  BY <3>1
  <2>2. Good(n)
    BY <1>11, <2>1
  <2>3. slots[i] \in taken[n]
    BY <2>1, <2>2
  <2> HIDE DEF Good
  <2>4. slots[n + 1] \notin taken[n]
    BY <1>8, <2>1, <2>2
  <2> QED  BY <2>1, <2>3, <2>4
<1>13. \A i, j \in 1 .. L : slots[i] = slots[j] => i = j
  <2>1. \A i, j \in 1 .. L : i = j \/ i < j \/ j < i
    OBVIOUS
  <2> QED  BY <1>12, <2>1
<1> QED  BY <1>2, <1>4, <1>5, <1>13 DEF IsInjective

(* Slots depend on those who joined before alone.                          *)
LEMMA SlotsStay ==
    ASSUME NEW a, NEW b, Len(a) \in Nat, DOMAIN a = 1 .. Len(a), Len(b) \in Nat, DOMAIN b = 1 .. Len(b),
           Len(a) <= Len(b), \A i \in DOMAIN a : a[i] = b[i], NEW i \in DOMAIN a
    PROVE  AssignSlots(a)[i] = AssignSlots(b)[i]
<1>1. PICK k, l \in Nat : k = Len(a) /\ l = Len(b) /\ k <= l
  OBVIOUS
<1>2. PICK f : /\ TakenBy(f, a, k)
               /\ AssignSlots(a) = [j \in DOMAIN a |-> FreeSlot(a[j], f[j - 1])]
  BY <1>1, SlotsAre
<1>3. PICK g : /\ TakenBy(g, b, l)
               /\ AssignSlots(b) = [j \in DOMAIN b |-> FreeSlot(b[j], g[j - 1])]
  BY <1>1, SlotsAre
<1>4. \A n \in 0 .. k : f[n] = TakenStep(a, f, n)
  BY <1>2 DEF TakenBy
<1>5. \A n \in 0 .. l : g[n] = TakenStep(b, g, n)
  BY <1>3 DEF TakenBy
<1> DEFINE C == {n \in Nat : n <= k => f[n] = g[n]}
<1>6. 0 \in C
  BY <1>1, <1>4, <1>5 DEF TakenStep
<1>7. ASSUME NEW n \in Nat, n \in C PROVE n + 1 \in C
  <2> SUFFICES ASSUME n + 1 <= k PROVE f[n + 1] = g[n + 1]
    OBVIOUS
  <2>1. f[n] = g[n]
    BY <1>7
  <2>2. n + 1 \in 0 .. k /\ n + 1 \in 0 .. l /\ n + 1 # 0 /\ (n + 1) - 1 = n /\ n + 1 \in DOMAIN a
    BY <1>1
  <2> QED  BY <1>4, <1>5, <2>1, <2>2 DEF TakenStep
<1> HIDE DEF C
<1>8. \A n \in Nat : n \in C
  BY <1>6, <1>7, ByNumber
<1>9. i - 1 \in Nat /\ i - 1 <= k /\ i \in DOMAIN b
  BY <1>1
<1>10. f[i - 1] = g[i - 1]
  BY <1>8, <1>9 DEF C
<1>11. AssignSlots(a)[i] = FreeSlot(a[i], f[i - 1]) /\ AssignSlots(b)[i] = FreeSlot(b[i], g[i - 1])
  BY <1>2, <1>3, <1>9
<1> QED  BY <1>10, <1>11

(* The tables as they may be read: those who have joined by then.          *)
JoinedBy(n) == {Joined[i] : i \in 1 .. n}
TablesOk(db) ==
    DbOk(db) /\ Early \subseteq db.rows /\ \E n \in 0 .. Len(Joined) : DOMAIN db.revoked = JoinedBy(n)

(* The places in the order of joining of the first who are listed.         *)
Shows(i) == Joined[i] # Placeholder \/ \E r \in Early : r.member = Placeholder
Places(n) == {i \in 1 .. n : Shows(i)}

LEMMA JoinedIs ==
    /\ Len(Joined) \in Nat /\ DOMAIN Joined = 1 .. Len(Joined)
    /\ \A i \in DOMAIN Joined : Joined[i] \in Member
    /\ \A i, j \in DOMAIN Joined : Joined[i] = Joined[j] => i = j
<1>1. Joined \in Seq(Member)
  BY DashboardBegins DEF Member
<1>2. Len(Joined) \in Nat /\ DOMAIN Joined = 1 .. Len(Joined) /\ \A i \in DOMAIN Joined : Joined[i] \in Member
  BY <1>1
<1>3. \A i, j \in DOMAIN Joined : Joined[i] = Joined[j] => i = j
  BY DashboardBegins DEF IsInjective
<1> QED  BY <1>2, <1>3

LEMMA ListedAre ==
    ASSUME NEW db, TablesOk(db)
    PROVE  \E n \in 0 .. Len(Joined) : {i \in DOMAIN Joined : Joined[i] \in MemberList(db)} = Places(n)
<1>1. PICK n \in 0 .. Len(Joined) : DOMAIN db.revoked = JoinedBy(n)
  BY DEF TablesOk
<1>2. PICK L \in Nat : L = Len(Joined) /\ DOMAIN Joined = 1 .. L
  BY JoinedIs
<1>3. (\E r \in db.rows : r.member = Placeholder) <=> \E r \in Early : r.member = Placeholder
  <2>1. db.rows \subseteq Row /\ Early \subseteq db.rows
    BY DEF TablesOk, DbOk, RowsOk
  <2> QED  BY <2>1, DashboardRows
<1>4. ASSUME NEW i \in DOMAIN Joined PROVE Joined[i] \in DOMAIN db.revoked <=> i \in 1 .. n
  <2>1. \A j \in 1 .. n : j \in DOMAIN Joined
    BY <1>1, <1>2
  <2>2. Joined[i] \in JoinedBy(n) <=> \E j \in 1 .. n : Joined[i] = Joined[j]
    BY DEF JoinedBy
  <2> QED  BY <1>1, <2>1, <2>2, JoinedIs
<1>5. ASSUME NEW i \in DOMAIN Joined PROVE Joined[i] \in MemberList(db) <=> i \in Places(n)
  <2>1. Joined[i] \in MemberList(db) <=>
           Joined[i] \in DOMAIN db.revoked /\ (Joined[i] # Placeholder \/ \E r \in db.rows : r.member = Joined[i])
    BY DEF MemberList
  <2>2. i \in Places(n) <=> i \in 1 .. n /\ Shows(i)
    BY DEF Places
  <2> QED  BY <1>3, <1>4, <2>1, <2>2 DEF Shows
<1>6. Places(n) \subseteq DOMAIN Joined
  <2>1. \A i \in 1 .. n : i \in DOMAIN Joined
    BY <1>1, <1>2
  <2> QED  BY <2>1 DEF Places
<1> QED  BY <1>1, <1>5, <1>6

LEMMA PlacesOk ==
    ASSUME NEW n \in 0 .. Len(Joined)
    PROVE  /\ IsFiniteSet(Places(n)) /\ Places(n) \subseteq Int /\ Places(n) \subseteq DOMAIN Joined
<1>1. PICK L \in Nat : L = Len(Joined) /\ DOMAIN Joined = 1 .. L
  BY JoinedIs
<1>2. n \in Int /\ 1 .. n \subseteq 1 .. L
  BY <1>1
<1>3. IsFiniteSet(1 .. n) /\ Places(n) \subseteq 1 .. n
  BY <1>2, FS_Interval DEF Places
<1> QED  BY <1>1, <1>2, <1>3, FS_Subset

(* The list of those who are listed.                                       *)
Joiners(n) == Kept(Joined, Places(n))
LEMMA JoinersAre ==
    ASSUME NEW n \in 0 .. Len(Joined)
    PROVE  /\ Len(Joiners(n)) \in Nat /\ DOMAIN Joiners(n) = 1 .. Len(Joiners(n))
           /\ \A i \in DOMAIN Joiners(n) : Joiners(n)[i] \in Member
           /\ \A i, j \in DOMAIN Joiners(n) : Joiners(n)[i] = Joiners(n)[j] => i = j
<1>1. /\ IsFiniteSet(Places(n)) /\ Places(n) \subseteq Int /\ Places(n) \subseteq DOMAIN Joined
  BY PlacesOk
<1>2. PICK at : KeptAt(Joined, Places(n), at)
  BY <1>1, KeptPlaces
<1>3. /\ Lists(at, Places(n))
      /\ DOMAIN Joiners(n) = DOMAIN at /\ \A i \in DOMAIN at : Joiners(n)[i] = Joined[at[i]]
  BY <1>2 DEF KeptAt, Joiners
<1>4. /\ Len(at) \in Nat /\ DOMAIN at = 1 .. Len(at) /\ \A i \in DOMAIN at : at[i] \in DOMAIN Joined
      /\ \A i, j \in DOMAIN at : at[i] = at[j] => i = j
  BY <1>1, <1>3, ListOfAll DEF Lists
<1>5. Len(Joiners(n)) = Len(at)
  BY <1>3, <1>4
<1>6. \A i \in DOMAIN at : Joined[at[i]] \in Member
  BY <1>4, JoinedIs
<1>7. \A i, j \in DOMAIN at : Joined[at[i]] = Joined[at[j]] => i = j
  BY <1>4, JoinedIs
<1> QED  BY <1>3, <1>4, <1>5, <1>6, <1>7

(* Who joins later is listed later.                                        *)
LEMMA JoinersStay ==
    ASSUME NEW n \in 0 .. Len(Joined), NEW k \in 0 .. Len(Joined), n <= k
    PROVE  /\ Len(Joiners(n)) <= Len(Joiners(k))
           /\ \A i \in DOMAIN Joiners(n) : i \in DOMAIN Joiners(k) /\ Joiners(n)[i] = Joiners(k)[i]
<1>1. /\ IsFiniteSet(Places(n)) /\ Places(n) \subseteq Int
      /\ IsFiniteSet(Places(k)) /\ Places(k) \subseteq Int
  BY PlacesOk
<1>2. PICK at : KeptAt(Joined, Places(n), at)
  BY <1>1, KeptPlaces
<1>3. /\ Lists(at, Places(n)) /\ \A i \in DOMAIN at : Cardinality(Below(Places(n), at[i])) = i - 1
      /\ DOMAIN Joiners(n) = DOMAIN at /\ \A i \in DOMAIN at : Joiners(n)[i] = Joined[at[i]]
  BY <1>2 DEF KeptAt, Joiners
<1>4. PICK to : KeptAt(Joined, Places(k), to)
  BY <1>1, KeptPlaces
<1>5. /\ Lists(to, Places(k)) /\ \A i \in DOMAIN to : Cardinality(Below(Places(k), to[i])) = i - 1
      /\ DOMAIN Joiners(k) = DOMAIN to /\ \A i \in DOMAIN to : Joiners(k)[i] = Joined[to[i]]
  BY <1>4 DEF KeptAt, Joiners
<1>6. n \in Int /\ k \in Int
  BY JoinedIs
<1>7. ASSUME NEW i \in DOMAIN at PROVE i \in DOMAIN to /\ at[i] = to[i]
  <2>1. PICK x : x = at[i] /\ x \in Places(n)
    BY <1>3, ListOfAll
  <2>2. x \in 1 .. n /\ x \in Places(k)
    BY <1>6, <2>1 DEF Places
  <2>3. PICK j \in DOMAIN to : to[j] = x
    BY <1>5, <2>2 DEF Lists
  <2>4. Below(Places(n), x) = Below(Places(k), x)
    <3>1. \A y \in Int : y < x => (y \in Places(n) <=> y \in Places(k))
      BY <1>6, <2>2 DEF Places
    <3> QED  BY <1>1, <3>1 DEF Below
  <2>5. i - 1 = j - 1
    BY <1>3, <1>5, <2>1, <2>3, <2>4
  <2>6. i \in Int /\ j \in Int
    BY <1>3, <1>5, <2>3 DEF Lists
  <2>7. i = j
    BY <2>5, <2>6
  <2> QED  BY <2>1, <2>3, <2>7
<1>8. Len(at) <= Len(to)
  <2>1. Len(at) \in Nat /\ DOMAIN at = 1 .. Len(at) /\ Len(to) \in Nat /\ DOMAIN to = 1 .. Len(to)
    BY <1>3, <1>5 DEF Lists
  <2>2. CASE Len(at) = 0
    BY <2>1, <2>2
  <2>3. CASE Len(at) # 0
    <3>1. Len(at) \in DOMAIN at
      BY <2>1, <2>3
    <3> QED  BY <1>7, <2>1, <3>1
  <2> QED  BY <2>2, <2>3
<1>9. Len(Joiners(n)) = Len(at) /\ Len(Joiners(k)) = Len(to)
  <2>1. DOMAIN at = 1 .. Len(at) /\ DOMAIN to = 1 .. Len(to) /\ Len(at) \in Nat /\ Len(to) \in Nat
    BY <1>3, <1>5 DEF Lists
  <2>2. Len(Joiners(n)) \in Nat /\ DOMAIN Joiners(n) = 1 .. Len(Joiners(n))
        /\ Len(Joiners(k)) \in Nat /\ DOMAIN Joiners(k) = 1 .. Len(Joiners(k))
    BY JoinersAre
  <2>3. \A a, b \in Nat : 1 .. a = 1 .. b => a = b
    <3> SUFFICES ASSUME NEW a \in Nat, NEW b \in Nat, 1 .. a = 1 .. b, a < b PROVE FALSE
      OBVIOUS
    <3>1. b \in 1 .. b /\ b \notin 1 .. a
      OBVIOUS
    <3> QED  BY <3>1
  <2> QED  BY <1>3, <1>5, <2>1, <2>2, <2>3
<1> QED  BY <1>3, <1>5, <1>7, <1>8, <1>9

LEMMA DifferentOnes ==
    ASSUME NEW n \in Nat, NEW q, \A i, j \in 1 .. n : q[i] = q[j] => i = j, NEW T, T = {q[i] : i \in 1 .. n}
    PROVE  Cardinality(T) = n
<1> DEFINE f == [i \in 1 .. n |-> q[i]]
<1>1. f \in [1 .. n -> T] /\ DOMAIN f = 1 .. n /\ \A i \in 1 .. n : f[i] = q[i]
  OBVIOUS
<1> HIDE DEF f
<1>2. \A i, j \in 1 .. n : f[i] = f[j] => i = j
  BY <1>1
<1>3. \A t \in T : \E i \in 1 .. n : f[i] = t
  BY <1>1
<1>4. f \in Bijection(1 .. n, T)
  BY <1>1, <1>2, <1>3 DEF Bijection, Injection, Surjection, IsInjective
<1>5. IsFiniteSet(1 .. n) /\ Cardinality(1 .. n) = n
  <2>1. 1 \in Int /\ n \in Int
    OBVIOUS
  <2>2. IsFiniteSet(1 .. n) /\ Cardinality(1 .. n) = IF 1 > n THEN 0 ELSE n - 1 + 1
    BY <2>1, FS_Interval
  <2> QED  BY <2>2
<1>6. Cardinality(T) = Cardinality(1 .. n)
  BY <1>4, <1>5, FS_Bijection DEF ExistsBijection
<1> QED  BY <1>5, <1>6

SlotMap(n) ==
    [m \in ToSet(Joiners(n)) |->
        AssignSlots(Joiners(n))[CHOOSE i \in DOMAIN Joiners(n) : Joiners(n)[i] = m]]
DbOf(p) == p[CHOOSE e \in Reads : TRUE].db

LEMMA SlotsOf ==
    ASSUME NEW p, TablesOk(DbOf(p))
    PROVE  \E n \in 0 .. Len(Joined) : Slots(p) = SlotMap(n)
<1>1. PICK n \in 0 .. Len(Joined) : {i \in DOMAIN Joined : Joined[i] \in MemberList(DbOf(p))} = Places(n)
  BY ListedAre
<1> DEFINE members == Kept(Joined, {i \in DOMAIN Joined : Joined[i] \in MemberList(DbOf(p))})
<1>2. Slots(p) = [m \in ToSet(members) |->
                    AssignSlots(members)[CHOOSE i \in DOMAIN members : members[i] = m]]
  BY DEF Slots, DbOf
<1>3. members = Joiners(n)
  BY <1>1 DEF Joiners
<1> HIDE DEF members
<1>4. Slots(p) = SlotMap(n)
  BY <1>2, <1>3 DEF SlotMap
<1> HIDE DEF SlotMap
<1> QED  BY <1>4

(* The place of a member in the list is their only one.                    *)
LEMMA SlotAt ==
    ASSUME NEW n \in 0 .. Len(Joined)
    PROVE  /\ DOMAIN SlotMap(n) = {Joiners(n)[i] : i \in DOMAIN Joiners(n)}
           /\ \A i \in DOMAIN Joiners(n) : SlotMap(n)[Joiners(n)[i]] = AssignSlots(Joiners(n))[i]
<1>1. PICK q : q = Joiners(n)
  OBVIOUS
<1>2. /\ Len(q) \in Nat /\ DOMAIN q = 1 .. Len(q)
      /\ \A i, j \in DOMAIN q : q[i] = q[j] => i = j
  BY <1>1, JoinersAre
<1>3. ToSet(q) = {q[i] : i \in DOMAIN q}
  BY <1>2 DEF ToSet
<1>4. SlotMap(n) = [m \in ToSet(q) |-> AssignSlots(q)[CHOOSE i \in DOMAIN q : q[i] = m]]
  BY <1>1 DEF SlotMap
<1>5. ASSUME NEW i \in DOMAIN q PROVE SlotMap(n)[q[i]] = AssignSlots(q)[i]
  <2>1. (CHOOSE j \in DOMAIN q : q[j] = q[i]) = i
    BY <1>2
  <2>2. q[i] \in ToSet(q)
    BY <1>3
  <2> QED  BY <1>4, <2>1, <2>2
<1>6. DOMAIN SlotMap(n) = ToSet(q)
  BY <1>4
<1> QED  BY <1>1, <1>3, <1>5, <1>6

(* The first to join share no colour.                                      *)
LEMMA ColoursDiffer ==
    ASSUME NEW n \in 0 .. Len(Joined), Cardinality(DOMAIN SlotMap(n)) <= SlotCount
    PROVE  IsInjective(SlotMap(n))
<1>1. PICK q : q = Joiners(n)
  OBVIOUS
<1>2. /\ Len(q) \in Nat /\ DOMAIN q = 1 .. Len(q) /\ \A i \in DOMAIN q : q[i] \in Member
      /\ \A i, j \in DOMAIN q : q[i] = q[j] => i = j
  BY <1>1, JoinersAre
<1>3. /\ DOMAIN SlotMap(n) = {q[i] : i \in DOMAIN q}
      /\ \A i \in DOMAIN q : SlotMap(n)[q[i]] = AssignSlots(q)[i]
  BY <1>1, SlotAt
<1>4. Cardinality(DOMAIN SlotMap(n)) = Len(q)
  <2>1. PICK T : T = DOMAIN SlotMap(n) /\ T = {q[i] : i \in 1 .. Len(q)}
    BY <1>2, <1>3
  <2>2. PICK l \in Nat : l = Len(q)
    BY <1>2
  <2> QED  BY <1>2, <2>1, <2>2, DifferentOnes
<1>5. \A i \in DOMAIN q : Hash(q[i]) \in Nat
  BY <1>2, DashboardRows DEF Member
<1>6. IsInjective(AssignSlots(q)) /\ DOMAIN AssignSlots(q) = DOMAIN q
  BY <1>2, <1>4, <1>5, SlotsDiffer
<1>7. \A i, j \in DOMAIN q : AssignSlots(q)[i] = AssignSlots(q)[j] => i = j
  BY <1>6 DEF IsInjective
<1>8. ASSUME NEW a \in DOMAIN SlotMap(n), NEW b \in DOMAIN SlotMap(n), SlotMap(n)[a] = SlotMap(n)[b]
      PROVE  a = b
  <2>1. PICK i \in DOMAIN q, j \in DOMAIN q : a = q[i] /\ b = q[j]
    BY <1>3
  <2> QED  BY <1>3, <1>7, <1>8, <2>1
<1> QED  BY <1>8 DEF IsInjective

(* Nobody's colour changes as others join.                                 *)
LEMMA ColoursStay ==
    ASSUME NEW n \in 0 .. Len(Joined), NEW k \in 0 .. Len(Joined),
           NEW m \in DOMAIN SlotMap(n) \cap DOMAIN SlotMap(k)
    PROVE  SlotMap(n)[m] = SlotMap(k)[m]
<1>1. ASSUME NEW a \in 0 .. Len(Joined), NEW b \in 0 .. Len(Joined), a <= b,
             m \in DOMAIN SlotMap(a), m \in DOMAIN SlotMap(b)
      PROVE  SlotMap(a)[m] = SlotMap(b)[m]
  <2>1. PICK p, q : p = Joiners(a) /\ q = Joiners(b)
    OBVIOUS
  <2>2. DOMAIN SlotMap(a) = {p[j] : j \in DOMAIN p}
    BY <2>1, SlotAt
  <2>3. PICK i \in DOMAIN p : m = p[i]
    BY <1>1, <2>2
  <2>4. /\ Len(p) \in Nat /\ DOMAIN p = 1 .. Len(p) /\ Len(q) \in Nat /\ DOMAIN q = 1 .. Len(q)
    BY <2>1, JoinersAre
  <2>5. Len(p) <= Len(q) /\ \A j \in DOMAIN p : j \in DOMAIN q /\ p[j] = q[j]
    BY <1>1, <2>1, JoinersStay
  <2>6. AssignSlots(p)[i] = AssignSlots(q)[i]
    BY <2>3, <2>4, <2>5, SlotsStay
  <2>7. SlotMap(a)[m] = AssignSlots(p)[i]
    BY <2>1, <2>3, SlotAt
  <2>8. SlotMap(b)[m] = AssignSlots(q)[i]
    BY <2>1, <2>3, <2>5, SlotAt
  <2> QED  BY <2>6, <2>7, <2>8
<1>2. n <= k \/ k <= n
  BY JoinedIs
<1> QED  BY <1>1, <1>2

-----------------------------------------------------------------------------
(***************************************************************************)
(* The page: numbers read as they were once.                               *)
(***************************************************************************)
(* What is shown and what comes was read from tables as they were once, for*)
(* a range that may be asked for.                                          *)
ReadOk(a) == a = NULL \/ a.outcome # "ok" \/ TablesOk(a.db)
LoadHas(load) == load # NULL => \A e \in Reads : ReadOk(load.got[e])
PageHas(p) == p # NULL => \A e \in Reads : TablesOk(p[e].db)
DataOk == TablesOk(Db) /\ RangeOk(tab) /\ LoadHas(loads["page"]) /\ PageHas(page)

LEMMA SameRange ==
    ASSUME NEW t, NEW u, RangeOk(t), u.preset = t.preset, u.asOf = t.asOf, u.dates = t.dates
    PROVE  RangeOk(u)
BY DEF RangeOk

LEMMA RenderHas ==
    ASSUME LoadHas(loads["page"]), NEW t, DOMAIN t = Fields, RangeOk(t), NEW changed, Render(t, changed)
    PROVE  RangeOk(tab') /\ LoadHas(loads'["page"])
<1>1. tab' = [t EXCEPT !.loading = TRUE] \/ tab' = t
  BY DEF Render
<1>2. tab'.preset = t.preset /\ tab'.asOf = t.asOf /\ tab'.dates = t.dates
  BY <1>1 DEF Fields
<1>3. RangeOk(tab')
  BY <1>2, SameRange
<1>4. loads'["page"] = Wanted("page", t) \/ loads'["page"] = loads["page"]
  BY DEF Render, Effects
<1>5. LoadHas(Wanted("page", t))
  <2>1. CASE ~Wants("page", t)
    BY <2>1 DEF Wanted, LoadHas
  <2>2. CASE Wants("page", t)
    <3>1. \A e \in Reads : Wanted("page", t).got[e] = NULL
      BY <2>2 DEF Wanted, ReadsOf
    <3> QED  BY <3>1 DEF LoadHas, ReadOk
  <2> QED  BY <2>1, <2>2
<1> QED  BY <1>3, <1>4, <1>5

(* A page that is loaded begins with a range that may be asked for.        *)
LEMMA FreshRange ==
    ASSUME now \in Horizon, NEW token
    PROVE  DOMAIN FreshTab(token) = Fields /\ RangeOk(FreshTab(token))
<1> DEFINE t == FreshTab(token)
<1>1. PICK c, d : c = DateHere(now) - CustomDays /\ d = DateHere(now)
  OBVIOUS
<1>2. /\ DOMAIN t = Fields /\ t.preset = DefaultPreset /\ t.asOf = now /\ t.dates = <<c, d>>
  BY <1>1 DEF FreshTab, Fields
<1>3. c \in Asked /\ d + 1 \in Asked
  BY <1>1, DayIs
<1>4. t.dates[1] = c /\ t.dates[2] = d
  BY <1>2
<1> HIDE DEF t
<1>5. DefaultPreset \in DOMAIN PresetDays
  BY DashboardAssumption
<1>6. RangeOk(t)
  BY <1>2, <1>3, <1>4, <1>5 DEF RangeOk
<1> QED  BY <1>2, <1>6 DEF t

(* What a user does keeps the range one that may be asked for.             *)
LEMMA UserHas ==
    ASSUME TabInv, DataOk, User
    PROVE  /\ RangeOk(tab') /\ LoadHas(loads'["page"])
           /\ page' \in {page, NULL} /\ UNCHANGED <<rows, revoked>>
<1>1. DOMAIN tab = Fields /\ RangeOk(tab) /\ LoadHas(loads["page"]) /\ now \in Horizon
  BY DEF TabInv, TabOk, DataOk, ServerOk
<1>2. ASSUME NEW t, NEW changed, Use(t, changed), DOMAIN t = Fields, RangeOk(t)
      PROVE  RangeOk(tab') /\ LoadHas(loads'["page"]) /\ UNCHANGED <<rows, revoked>>
  BY <1>1, <1>2, RenderHas DEF Use, server
<1>3. ASSUME NEW p \in DOMAIN PresetDays \cup {"custom"}, ChoosePreset(p)
      PROVE  RangeOk(tab') /\ LoadHas(loads'["page"]) /\ page' = page /\ UNCHANGED <<rows, revoked>>
  <2> DEFINE t == [tab EXCEPT !.preset = p, !.asOf = now]
  <2>1. DOMAIN t = Fields /\ t.preset = p /\ t.asOf = now /\ t.dates = tab.dates
    BY <1>1 DEF Fields
  <2> HIDE DEF t
  <2>2. RangeOk(t)
    BY <1>1, <2>1 DEF RangeOk
  <2> QED  BY <1>2, <1>3, <2>1, <2>2 DEF ChoosePreset, t
<1>4. ASSUME NEW d \in Dates, SetDates(d)
      PROVE  RangeOk(tab') /\ LoadHas(loads'["page"]) /\ page' = page /\ UNCHANGED <<rows, revoked>>
  <2> DEFINE t == [tab EXCEPT !.dates = d]
  <2>1. DOMAIN t = Fields /\ t.preset = tab.preset /\ t.asOf = tab.asOf /\ t.dates = d
    BY <1>1 DEF Fields
  <2> HIDE DEF t
  <2>2. d # NULL => {d[1], d[2] + 1} \subseteq Asked
    BY DEF Asked
  <2>3. RangeOk(t)
    BY <1>1, <2>1, <2>2 DEF RangeOk
  <2> QED  BY <1>2, <1>4, <2>1, <2>3 DEF SetDates, t
<1>5. ASSUME NEW s, Select(s)
      PROVE  RangeOk(tab') /\ LoadHas(loads'["page"]) /\ page' = page /\ UNCHANGED <<rows, revoked>>
  <2> DEFINE t == [tab EXCEPT !.selection = s]
  <2>1. DOMAIN t = Fields /\ t.preset = tab.preset /\ t.asOf = tab.asOf /\ t.dates = tab.dates
    BY <1>1 DEF Fields
  <2> HIDE DEF t
  <2>2. RangeOk(t)
    BY <1>1, <2>1, SameRange
  <2> QED  BY <1>2, <1>5, <2>1, <2>2 DEF Select, t
<1>6. ASSUME Refresh
      PROVE  RangeOk(tab') /\ LoadHas(loads'["page"]) /\ page' = page /\ UNCHANGED <<rows, revoked>>
  <2> DEFINE t == [tab EXCEPT !.asOf = now]
  <2>1. DOMAIN t = Fields /\ t.preset = tab.preset /\ t.asOf = now /\ t.dates = tab.dates
    BY <1>1 DEF Fields
  <2> HIDE DEF t
  <2>2. RangeOk(t)
    BY <1>1, <2>1 DEF RangeOk
  <2> QED  BY <1>2, <1>6, <2>1, <2>2 DEF Refresh, t
<1>7. ASSUME NEW m, OpenMember(m)
      PROVE  RangeOk(tab') /\ LoadHas(loads'["page"]) /\ page' = page /\ UNCHANGED <<rows, revoked>>
  <2> DEFINE t == [tab EXCEPT !.selected = m]
  <2>1. DOMAIN t = Fields /\ t.preset = tab.preset /\ t.asOf = tab.asOf /\ t.dates = tab.dates
    BY <1>1 DEF Fields
  <2> HIDE DEF t
  <2>2. RangeOk(t)
    BY <1>1, <2>1, SameRange
  <2> QED  BY <1>2, <1>7, <2>1, <2>2 DEF OpenMember, t
<1>8. ASSUME NEW v, ChooseView(v)
      PROVE  RangeOk(tab') /\ LoadHas(loads'["page"]) /\ page' = page /\ UNCHANGED <<rows, revoked>>
  <2> DEFINE t == [tab EXCEPT !.view = v, !.selected = NULL]
  <2>1. DOMAIN t = Fields /\ t.preset = tab.preset /\ t.asOf = tab.asOf /\ t.dates = tab.dates
    BY <1>1 DEF Fields
  <2> HIDE DEF t
  <2>2. RangeOk(t)
    BY <1>1, <2>1, SameRange
  <2> QED  BY <1>2, <1>8, <2>1, <2>2 DEF ChooseView, t
<1>9. ASSUME Lock
      PROVE  RangeOk(tab') /\ LoadHas(loads'["page"]) /\ page' = NULL /\ UNCHANGED <<rows, revoked>>
  <2> DEFINE t == Gate(tab, FALSE)
  <2>1. DOMAIN t = Fields /\ t.preset = tab.preset /\ t.asOf = tab.asOf /\ t.dates = tab.dates
    BY <1>1 DEF Fields, Gate
  <2> HIDE DEF t
  <2>2. RangeOk(t)
    BY <1>1, <2>1, SameRange
  <2>3. Render(t, {"token"}) /\ page' = NULL /\ UNCHANGED <<rows, revoked>>
    BY <1>9 DEF Lock, t, server
  <2> QED  BY <1>1, <2>1, <2>2, <2>3, RenderHas
<1>10. ASSUME NEW token, NEW remember, Submit(token, remember)
       PROVE  RangeOk(tab') /\ LoadHas(loads'["page"]) /\ page' = page /\ UNCHANGED <<rows, revoked>>
  <2> DEFINE t == [tab EXCEPT !.token = token, !.tokenError = FALSE, !.error = FALSE]
  <2>1. DOMAIN t = Fields /\ t.preset = tab.preset /\ t.asOf = tab.asOf /\ t.dates = tab.dates
    BY <1>1 DEF Fields
  <2> HIDE DEF t
  <2>2. RangeOk(t)
    BY <1>1, <2>1, SameRange
  <2>3. Render(t, {"token"}) /\ page' = page /\ UNCHANGED <<rows, revoked>>
    BY <1>10 DEF Submit, t, server, shown
  <2> QED  BY <1>1, <2>1, <2>2, <2>3, RenderHas
<1>11. ASSUME NEW token, LoadPage(token)
       PROVE  RangeOk(tab') /\ LoadHas(loads'["page"]) /\ page' = NULL /\ UNCHANGED <<rows, revoked>>
  <2> DEFINE t == FreshTab(token)
  <2>1. DOMAIN t = Fields /\ RangeOk(t)
    BY <1>1, FreshRange
  <2> HIDE DEF t
  <2>2. Render(t, {"token", "request", "view", "selected", "reload"}) /\ page' = NULL /\ UNCHANGED <<rows, revoked>>
    BY <1>11 DEF LoadPage, t, server
  <2> QED  BY <1>1, <2>1, <2>2, RenderHas
<1>12. ASSUME NEW kind, NEW m, SendWrite(kind, m)
       PROVE  RangeOk(tab') /\ LoadHas(loads'["page"]) /\ page' = page /\ UNCHANGED <<rows, revoked>>
  BY <1>1, <1>12 DEF SendWrite, server, shown
<1> QED  BY <1>3, <1>4, <1>5, <1>6, <1>7, <1>8, <1>9, <1>10, <1>11, <1>12 DEF User, Reload, Reopen, OpenLink

LEMMA GateHas ==
    ASSUME LoadHas(loads["page"]), NEW t, DOMAIN t = Fields, RangeOk(t), PutGateBack(t)
    PROVE  RangeOk(tab') /\ LoadHas(loads'["page"]) /\ page' = NULL
<1> DEFINE g == Gate(t, TRUE)
<1>1. DOMAIN g = Fields /\ g.preset = t.preset /\ g.asOf = t.asOf /\ g.dates = t.dates
  BY DEF Fields, Gate
<1>2. Render(g, {"token"}) /\ page' = NULL
  BY DEF PutGateBack
<1> HIDE DEF g
<1>3. RangeOk(g)
  BY <1>1, SameRange
<1> QED  BY <1>1, <1>2, <1>3, RenderHas

(* A load's answer is of the tables as they are.                           *)
LEMMA ReadHas ==
    ASSUME TabInv, DataOk, NEW k \in Effects, NEW e \in ReadsOf[k], ServeRead(k, e) \/ LoseRead(k, e)
    PROVE  LoadHas(loads'["page"])
<1>1. PICK a : ReadOk(a) /\ loads[k] # NULL /\ loads' = [loads EXCEPT ![k].got[e] = a]
  <2>1. CASE ServeRead(k, e)
    <3>1. Answer(loads[k], e).db = Db
      BY DEF Answer
    <3>2. ReadOk(Answer(loads[k], e))
      BY <3>1 DEF ReadOk, DataOk
    <3> QED  BY <2>1, <3>2 DEF ServeRead
  <2>2. CASE LoseRead(k, e)
    <3>1. ReadOk(Lost)
      BY DEF ReadOk, Lost
    <3> QED  BY <2>2, <3>1 DEF LoseRead
  <2> QED  BY <2>1, <2>2
<1>2. DOMAIN loads = Effects /\ LoadOk(k, tab, loads[k])
  BY DEF TabInv, LoadsOk
<1>3. DOMAIN loads[k] = {"token", "q", "member", "got"} /\ DOMAIN loads[k].got = ReadsOf[k]
  BY <1>1, <1>2 DEF LoadOk
<1>4. CASE k = "page"
  <2>1. loads'[k] = [loads[k] EXCEPT !.got[e] = a]
    BY <1>1, <1>2
  <2>2. \A f \in ReadsOf[k] : loads'[k].got[f] = IF f = e THEN a ELSE loads[k].got[f]
    BY <1>3, <2>1
  <2>3. ReadsOf[k] = Reads
    BY <1>4 DEF ReadsOf
  <2>4. \A f \in Reads : ReadOk(loads[k].got[f])
    BY <1>1, <1>4 DEF DataOk, LoadHas
  <2>5. \A f \in Reads : ReadOk(loads'[k].got[f])
    BY <1>1, <2>2, <2>3, <2>4
  <2> QED  BY <1>4, <2>5 DEF LoadHas
<1>5. CASE k # "page"
  <2>1. loads'["page"] = loads["page"]
    BY <1>1, <1>2, <1>5 DEF Effects
  <2> QED  BY <2>1 DEF DataOk
<1> QED  BY <1>4, <1>5

(* A page that lands has what its load brought.                            *)
LEMMA PageLands ==
    ASSUME TabInv, DataOk, LandPage
    PROVE  /\ PageHas(page') /\ RangeOk(tab') /\ LoadHas(loads'["page"])
           /\ Request(tab) # NULL /\ \A e \in Reads : page'[e].q = Request(tab)
<1>1. /\ loads["page"] # NULL /\ Complete(loads["page"]) /\ page' = loads["page"].got
      /\ tab' = [tab EXCEPT !.error = FALSE, !.loading = FALSE]
      /\ loads' = [loads EXCEPT !["page"] = NULL] /\ "page" \in Effects /\ ReadsOf["page"] = Reads
  BY DEF LandPage, Effects, ReadsOf
<1>2. DOMAIN tab = Fields /\ DOMAIN loads = Effects /\ LoadOk("page", tab, loads["page"])
  BY <1>1 DEF TabInv, TabOk, LoadsOk
<1>3. DOMAIN loads["page"].got = Reads /\ Request(tab) # NULL /\ loads["page"].q = Request(tab)
  BY <1>1, <1>2 DEF LoadOk
<1>4. \A e \in Reads : page'[e].q = Request(tab)
  BY <1>1, <1>3, CompleteIsShown
<1>5. \A e \in Reads : page'[e] # NULL /\ page'[e].outcome = "ok"
  BY <1>1, <1>3 DEF Complete, Came
<1>6. PageHas(page')
  BY <1>1, <1>5 DEF PageHas, DataOk, LoadHas, ReadOk
<1>7. tab'.preset = tab.preset /\ tab'.asOf = tab.asOf /\ tab'.dates = tab.dates
  BY <1>1, <1>2 DEF Fields
<1>8. RangeOk(tab')
  BY <1>7, SameRange DEF DataOk
<1>9. LoadHas(loads'["page"])
  BY <1>1, <1>2 DEF LoadHas
<1> QED  BY <1>3, <1>4, <1>6, <1>8, <1>9

(* What settles brings no page but that one.                               *)
LEMMA ProgressHas ==
    ASSUME TabInv, DataOk, Progress
    PROVE  /\ RangeOk(tab') /\ LoadHas(loads'["page"])
           /\ page' \in {page, NULL} \/ LandPage
           /\ rows' = rows /\ DOMAIN revoked' = DOMAIN revoked
<1>1. DOMAIN tab = Fields /\ DOMAIN loads = Effects /\ RangeOk(tab) /\ LoadHas(loads["page"])
  BY DEF TabInv, TabOk, LoadsOk, DataOk
<1>2. ASSUME NEW t, DOMAIN t = Fields, t.preset = tab.preset, t.asOf = tab.asOf, t.dates = tab.dates
      PROVE  RangeOk(t) /\ RangeOk([t EXCEPT !.error = TRUE])
  <2>1. /\ [t EXCEPT !.error = TRUE].preset = tab.preset /\ [t EXCEPT !.error = TRUE].asOf = tab.asOf
        /\ [t EXCEPT !.error = TRUE].dates = tab.dates
    BY <1>2 DEF Fields
  <2> QED  BY <1>1, <1>2, <2>1, SameRange
<1>3. ASSUME NEW k \in Effects, Reject(k)
      PROVE  RangeOk(tab') /\ LoadHas(loads'["page"]) /\ page' \in {page, NULL} /\ UNCHANGED <<rows, revoked>>
  <2> DEFINE t == IF k = "page" THEN [tab EXCEPT !.loading = FALSE] ELSE tab
  <2>1. DOMAIN t = Fields /\ t.preset = tab.preset /\ t.asOf = tab.asOf /\ t.dates = tab.dates
    BY <1>1 DEF Fields
  <2>2. /\ UNCHANGED <<rows, revoked>>
        /\ \/ PutGateBack(t)
           \/ /\ tab' = [t EXCEPT !.error = TRUE] /\ loads' = [loads EXCEPT ![k] = NULL] /\ page' = page
    BY <1>3 DEF Reject, server, shown
  <2> HIDE DEF t
  <2>3. CASE PutGateBack(t)
    BY <1>1, <1>2, <2>1, <2>2, <2>3, GateHas
  <2>4. CASE tab' = [t EXCEPT !.error = TRUE] /\ loads' = [loads EXCEPT ![k] = NULL] /\ page' = page
    <3>1. RangeOk(tab')
      BY <1>2, <2>1, <2>4
    <3>2. loads'["page"] = NULL \/ loads'["page"] = loads["page"]
      BY <1>1, <2>4 DEF Effects
    <3> QED  BY <1>1, <2>2, <2>4, <3>1, <3>2 DEF LoadHas
  <2> QED  BY <2>2, <2>3, <2>4
<1>4. ASSUME NEW k \in Effects, NEW e \in ReadsOf[k], ServeRead(k, e)
      PROVE  RangeOk(tab') /\ LoadHas(loads'["page"]) /\ page' = page /\ UNCHANGED <<rows, revoked>>
  <2>1. tab' = tab /\ page' = page /\ UNCHANGED <<rows, revoked>>
    BY <1>4 DEF ServeRead, server, shown
  <2> QED  BY <1>1, <1>4, <2>1, ReadHas
<1>5. CASE LandPage
  BY <1>5, PageLands DEF LandPage, server
<1>6. CASE LandMember \/ LandInvites
  <2>1. tab' = tab /\ page' = page /\ UNCHANGED <<rows, revoked>> /\ loads'["page"] = loads["page"]
    BY <1>1, <1>6 DEF LandMember, LandInvites, server, Effects
  <2> QED  BY <1>1, <2>1
<1>7. CASE ServeWrite
  <2>1. tab' = tab /\ page' = page /\ rows' = rows /\ loads' = loads /\ DOMAIN revoked' = DOMAIN revoked
    BY <1>7 DEF ServeWrite, shown
  <2> QED  BY <1>1, <2>1
<1>8. CASE WriteDone
  <2>1. page' = page /\ UNCHANGED <<rows, revoked>>
    BY <1>8 DEF WriteDone, server
  <2>2. Render(tab, {"reload"}) \/ (tab' = tab /\ loads' = loads)
    BY <1>8 DEF WriteDone
  <2>3. CASE Render(tab, {"reload"})
    BY <1>1, <2>1, <2>3, RenderHas
  <2> QED  BY <1>1, <2>1, <2>2, <2>3
<1>9. CASE WriteFailed
  <2>1. UNCHANGED <<rows, revoked>>
    BY <1>9 DEF WriteFailed, server
  <2>2. \/ PutGateBack(tab)
        \/ tab' = tab /\ loads' = loads /\ page' = page
        \/ tab' = [tab EXCEPT !.error = TRUE] /\ loads' = loads /\ page' = page
    BY <1>9 DEF WriteFailed, shown
  <2>3. CASE PutGateBack(tab)
    BY <1>1, <2>1, <2>3, GateHas
  <2>4. CASE tab' = [tab EXCEPT !.error = TRUE] /\ loads' = loads /\ page' = page
    BY <1>1, <1>2, <2>1, <2>4
  <2> QED  BY <1>1, <2>1, <2>2, <2>3, <2>4
<1> QED  BY <1>3, <1>4, <1>5, <1>6, <1>7, <1>8, <1>9 DEF Progress

-----------------------------------------------------------------------------
(* The tables: rows come, and members join one after the other.            *)
LEMMA TablesAre ==
    ASSUME NEW R, NEW v
    PROVE  TablesOk([rows |-> R, revoked |-> v]) <=>
              /\ R \subseteq Row /\ IsFiniteSet(R) /\ Early \subseteq R /\ \A r \in R : r.member \in DOMAIN v
              /\ \E n \in 0 .. Len(Joined) : DOMAIN v = JoinedBy(n)
<1> DEFINE db == [rows |-> R, revoked |-> v]
<1>1. db.rows = R /\ db.revoked = v
  OBVIOUS
<1>2. ASSUME NEW n \in 0 .. Len(Joined) PROVE IsFiniteSet(JoinedBy(n)) /\ JoinedBy(n) \subseteq Member
  <2>1. \A i \in 1 .. n : i \in DOMAIN Joined
    BY JoinedIs
  <2>2. JoinedBy(n) \subseteq Member
    BY <2>1, JoinedIs DEF JoinedBy
  <2> QED  BY <2>2, MembersAreFinite, FS_Subset
<1> HIDE DEF db
<1>3. TablesOk(db) <=>
              /\ R \subseteq Row /\ IsFiniteSet(R) /\ Early \subseteq R /\ \A r \in R : r.member \in DOMAIN v
              /\ \E n \in 0 .. Len(Joined) : DOMAIN v = JoinedBy(n)
  BY <1>1, <1>2 DEF TablesOk, DbOk, RowsOk
<1> QED  BY <1>3 DEF db

LEMMA TablesKeep ==
    ASSUME TablesOk(Db), (\E r \in Row : Store(r)) \/ Join \/ (rows' = rows /\ DOMAIN revoked' = DOMAIN revoked)
    PROVE  TablesOk(Db)'
<1>1. /\ rows \subseteq Row /\ IsFiniteSet(rows) /\ Early \subseteq rows
      /\ \A r \in rows : r.member \in DOMAIN revoked
      /\ \E n \in 0 .. Len(Joined) : DOMAIN revoked = JoinedBy(n)
  BY TablesAre DEF Db
<1>2. CASE \E r \in Row : Store(r)
  <2>1. PICK r \in Row : rows' = rows \cup {r} /\ revoked' = revoked /\ r.member \in DOMAIN revoked
    BY <1>2 DEF Store
  <2>2. IsFiniteSet(rows')
    BY <1>1, <2>1, FS_AddElement
  <2>3. TablesOk([rows |-> rows', revoked |-> revoked'])
    BY <1>1, <2>1, <2>2, TablesAre
  <2> QED  BY <2>3 DEF Db
<1>3. CASE Join
  <2>1. PICK n \in 0 .. Len(Joined) : DOMAIN revoked = JoinedBy(n)
    BY <1>1
  <2>2. Len(Joined) \in Nat /\ n \in Nat /\ \A i \in 1 .. n : i \in DOMAIN Joined
    BY JoinedIs
  <2>3. \A i, j \in 1 .. n : Joined[i] = Joined[j] => i = j
    BY <2>2, JoinedIs
  <2>4. Cardinality(DOMAIN revoked) = n
    <3>1. PICK T : T = DOMAIN revoked /\ T = {Joined[i] : i \in 1 .. n}
      BY <2>1 DEF JoinedBy
    <3>2. PICK k \in Nat : k = n
      BY <2>2
    <3>3. Cardinality(T) = k
      BY <2>3, <3>1, <3>2, DifferentOnes
    <3> QED  BY <3>1, <3>2, <3>3
  <2>5. n + 1 \in 0 .. Len(Joined) /\ rows' = rows /\ DOMAIN revoked' = DOMAIN revoked \cup {Joined[n + 1]}
    BY <1>3, <2>2, <2>4 DEF Join
  <2>6. JoinedBy(n + 1) = JoinedBy(n) \cup {Joined[n + 1]}
    <3>1. 1 .. n + 1 = 1 .. n \cup {n + 1}
      BY <2>2
    <3> QED  BY <3>1 DEF JoinedBy
  <2>7. TablesOk([rows |-> rows', revoked |-> revoked'])
    BY <1>1, <2>1, <2>5, <2>6, TablesAre
  <2> QED  BY <2>7 DEF Db
<1>4. CASE rows' = rows /\ DOMAIN revoked' = DOMAIN revoked
  <2>1. TablesOk([rows |-> rows', revoked |-> revoked'])
    BY <1>1, <1>4, TablesAre
  <2> QED  BY <2>1 DEF Db
<1> QED  BY <1>2, <1>3, <1>4

LEMMA DataBegins == Init => DataOk
<1> SUFFICES ASSUME Init PROVE DataOk
  OBVIOUS
<1>1. now \in Horizon
  BY LeastIsOne, DashboardBegins DEF Init
<1>2. TablesOk(Db)
  <2>1. PICK n \in 0 .. Len(Joined) : {r.member : r \in Early} = JoinedBy(n)
    BY DashboardBegins DEF JoinedBy
  <2>2. rows = Early /\ DOMAIN revoked = {r.member : r \in Early}
    BY DEF Init
  <2>3. \A r \in rows : r.member \in DOMAIN revoked
    BY <2>2
  <2>4. TablesOk([rows |-> rows, revoked |-> revoked])
    BY <2>1, <2>2, <2>3, DashboardAssumption, DashboardRows, TablesAre
  <2> QED  BY <2>4 DEF Db
<1> DEFINE t == FreshTab(durable)
<1>3. DOMAIN t = Fields /\ RangeOk(t)
  BY <1>1, FreshRange
<1>4. tab = [t EXCEPT !.loading = durable # NULL] /\ loads = [k \in Effects |-> Wanted(k, t)] /\ page = NULL
  BY DEF Init
<1> HIDE DEF t
<1>5. RangeOk(tab)
  <2>1. tab.preset = t.preset /\ tab.asOf = t.asOf /\ tab.dates = t.dates
    BY <1>3, <1>4 DEF Fields
  <2> QED  BY <1>3, <2>1, SameRange
<1>6. LoadHas(loads["page"])
  <2>1. loads["page"] = Wanted("page", t)
    BY <1>4 DEF Effects
  <2>2. CASE ~Wants("page", t)
    BY <2>1, <2>2 DEF Wanted, LoadHas
  <2>3. CASE Wants("page", t)
    <3>1. \A e \in Reads : Wanted("page", t).got[e] = NULL
      BY <2>3 DEF Wanted, ReadsOf
    <3> QED  BY <2>1, <3>1 DEF LoadHas, ReadOk
  <2> QED  BY <2>2, <2>3
<1>7. PageHas(page)
  BY <1>4 DEF PageHas
<1> QED  BY <1>2, <1>5, <1>6, <1>7 DEF DataOk

(* No step but a landing brings a page.                                    *)
LEMMA DataSteps ==
    ASSUME TabInv, DataOk, [Next]_vars
    PROVE  DataOk' /\ (page' \in {page, NULL} \/ LandPage)
<1>1. DataOk' <=> TablesOk(Db)' /\ RangeOk(tab') /\ LoadHas(loads'["page"]) /\ PageHas(page')
  BY DEF DataOk, RangeOk, LoadHas, PageHas, ReadOk
<1>2. TablesOk(Db) /\ RangeOk(tab) /\ LoadHas(loads["page"]) /\ PageHas(page)
  BY DEF DataOk
<1>3. PageHas(NULL)
  BY DEF PageHas
<1>4. CASE User
  BY <1>1, <1>2, <1>3, <1>4, UserHas, TablesKeep
<1>5. CASE Progress
  <2>1. LandPage => PageHas(page')
    BY PageLands
  <2> QED  BY <1>1, <1>2, <1>3, <1>5, <2>1, ProgressHas, TablesKeep
<1>6. ASSUME NEW k \in Effects, NEW e \in ReadsOf[k], LoseRead(k, e)
      PROVE  DataOk' /\ page' \in {page, NULL}
  <2>1. tab' = tab /\ page' = page /\ UNCHANGED <<rows, revoked>>
    BY <1>6 DEF LoseRead, server, shown
  <2> QED  BY <1>1, <1>2, <1>6, <2>1, ReadHas, TablesKeep
<1>7. CASE Superseded \/ LoseWrite \/ UNCHANGED vars
  <2>1. tab' = tab /\ page' = page /\ loads' = loads /\ UNCHANGED <<rows, revoked>>
    BY <1>7 DEF Superseded, LoseWrite, vars, server, shown
  <2> QED  BY <1>1, <1>2, <2>1, TablesKeep
<1>8. CASE (\E r \in Row : Store(r)) \/ Join \/ Rotate \/ Tick
  <2>1. tab' = tab /\ page' = page /\ loads' = loads
    BY <1>8 DEF Store, Join, Rotate, Tick, Elsewhere, shown
  <2>2. (\E r \in Row : Store(r)) \/ Join \/ (rows' = rows /\ DOMAIN revoked' = DOMAIN revoked)
    BY <1>8 DEF Rotate, Tick
  <2>3. TablesOk(Db)'
    BY <1>2, <2>2, TablesKeep
  <2> QED  BY <1>1, <1>2, <2>1, <2>3
<1> QED  BY <1>4, <1>5, <1>6, <1>7, <1>8 DEF Next

LEMMA DataHolds == Spec => [](TabInv /\ DataOk)
<1>1. Init => TabInv /\ DataOk
  BY TabBegins, DataBegins
<1>2. TabInv /\ DataOk /\ [Next]_vars => (TabInv /\ DataOk)'
  BY TabStep, DataSteps
<1> QED  BY <1>1, <1>2, PTL DEF Spec

-----------------------------------------------------------------------------
(* The numbers of a page read from such tables agree.                      *)
LEMMA PageIsRight ==
    ASSUME NEW p, PageHas(p), p # NULL, \A e \in Reads : QOk(p[e].q)
    PROVE  PageAddsUp(p)
<1> SUFFICES ASSUME NEW e \in Reads
             PROVE  /\ TableAddsUp(p[e].db, p[e].q) /\ ChartAddsUp(Timeseries(p[e].db, p[e].q))
                    /\ SeriesTotal(Timeseries(p[e].db, p[e].q)) = Summary(p[e].db, p[e].q).totals.tokens
                    /\ \A t \in Horizon : BadgesAddUp(p[e].db, t)
  BY DEF PageAddsUp
<1>1. PICK db, q : db = p[e].db /\ q = p[e].q
  OBVIOUS
<1>2. DbOk(db) /\ QOk(q)
  BY <1>1 DEF PageHas, TablesOk
<1>3. TableAddsUp(db, q)
  BY <1>2, TablesAddUp
<1>4. ChartAddsUp(Timeseries(db, q)) /\ SeriesTotal(Timeseries(db, q)) = Summary(db, q).totals.tokens
  BY <1>2, ChartsAddUp
<1>5. \A t \in Horizon : BadgesAddUp(db, t)
  BY <1>2, BadgesAreTrue
<1> QED  BY <1>1, <1>3, <1>4, <1>5

LEMMA PageSlots ==
    ASSUME NEW p, PageHas(p), p # NULL
    PROVE  \E n \in 0 .. Len(Joined) : Slots(p) = SlotMap(n)
<1>1. (CHOOSE e \in Reads : TRUE) \in Reads
  BY DashboardBegins
<1>2. TablesOk(DbOf(p))
  BY <1>1 DEF PageHas, DbOf
<1> QED  BY <1>2, SlotsOf

(* Whenever a page lands its numbers agree: the tiles, the table, its      *)
(* shares, the source filter, the bars, the profiles, the stack, the trends*)
(* and each member's page are of the same tokens (db/queries.ts, web lib); *)
(* the badges are of those who are over a threshold by the same rows       *)
(* (activeAlertStates); and the colours of those who joined first differ   *)
(* and stay (assignSlots).                                                 *)
THEOREM NumbersAlwaysAgree == Spec => NumbersAgree
<1> DEFINE Agrees ==
             page' # NULL /\ page' # page =>
               /\ PageAddsUp(page')
               /\ Cardinality(DOMAIN Slots(page')) <= SlotCount => IsInjective(Slots(page'))
               /\ page # NULL => \A m \in DOMAIN Slots(page) \cap DOMAIN Slots(page') :
                                     Slots(page)[m] = Slots(page')[m]
<1>1. TabInv /\ DataOk /\ [Next]_vars => Agrees
  <2> SUFFICES ASSUME TabInv, DataOk, [Next]_vars, page' # NULL, page' # page
               PROVE  /\ PageAddsUp(page')
                      /\ Cardinality(DOMAIN Slots(page')) <= SlotCount => IsInjective(Slots(page'))
                      /\ page # NULL => \A m \in DOMAIN Slots(page) \cap DOMAIN Slots(page') :
                                            Slots(page)[m] = Slots(page')[m]
    OBVIOUS
  <2>1. LandPage
    BY DataSteps
  <2>2. PageHas(page') /\ Request(tab) # NULL /\ \A e \in Reads : page'[e].q = Request(tab)
    BY <2>1, PageLands
  <2>3. QOk(Request(tab))
    BY <2>2, RequestIs DEF DataOk
  <2>4. PageAddsUp(page')
    BY <2>2, <2>3, PageIsRight
  <2>5. PICK n \in 0 .. Len(Joined) : Slots(page') = SlotMap(n)
    BY <2>2, PageSlots
  <2>6. Cardinality(DOMAIN Slots(page')) <= SlotCount => IsInjective(Slots(page'))
    BY <2>5, ColoursDiffer
  <2>7. ASSUME page # NULL, NEW m \in DOMAIN Slots(page) \cap DOMAIN Slots(page')
        PROVE  Slots(page)[m] = Slots(page')[m]
    <3>1. PICK k \in 0 .. Len(Joined) : Slots(page) = SlotMap(k)
      BY <2>7, PageSlots DEF DataOk
    <3> QED  BY <2>5, <2>7, <3>1, ColoursStay
  <2> QED  BY <2>4, <2>6, <2>7
<1>2. TabInv /\ DataOk /\ [Next]_vars => [Agrees]_page
  BY <1>1
<1> QED  BY <1>2, DataHolds, PTL DEF Spec, NumbersAgree
=============================================================================
