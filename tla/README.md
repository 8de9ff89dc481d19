# ccledger in TLA+

ccledger keeps a team's usage of Claude Code: every machine exports OpenTelemetry
log events to one server, the server stores one row per API request in SQLite,
a dashboard reads the rows, and rules raise alerts by webhook. This directory
holds its formal model: TLA+ modules translated from the source, configurations
that check them with TLC on small instances, and proofs that TLAPS checks for
every instance.

Run, in this directory:

    tlc -workers 2 -config MCIngest.cfg MCIngest        # a configuration, with its MC module
    tlapm Ingest_proofs.tla                             # a module of proofs

`PROJECT.json` lists the runs, the mutants, the theorems and the hazards, and
says for every definition which lines of the source it stands for. Paths below
are relative to the repository's `src/`.

## 1. The system

A server is one Node process (Fastify) over one SQLite file in WAL mode; the
file is shared with the command line (`ccledger invite`, `backup`) and, while one
server replaces another, with a second server. better-sqlite3 is synchronous, so
inside a process a handler runs from one `await` to the next without
interruption; between processes only a transaction, or a single statement, is
atomic.

| Part | State | Operations | Hard because |
|---|---|---|---|
| **Ingest** `server/app.ts`, `server/ingest.ts`, `server/auth.ts` | tables `requests`, `installs`, `members.revoked_at` | POST /v1/logs: authenticate, check content type, read body, store in one transaction, answer; revoke; POST /leave | exporters deliver at least once, out of order, and under a token that may be revoked while the body is on its way; the answer decides whether a batch is retried or dropped |
| **OTLP parsing** `server/otlp.ts` | none | tolerant parser of a log export | what is kept, what is an issue, what refuses the body |
| **Alerting** `server/alerts.ts`, `db/alerts.ts`, `server/webhook.ts`, `server/alertroutes.ts` | tables `alert_rules`, `alert_fires`; deliveries under way, in memory | evaluate after a commit, claim a fire, post with retries, record the outcome; create, patch, delete a rule; badges | every statement of an evaluation is its own transaction; deliveries outlive the request and die with the process; rules change meanwhile |
| **Enrolment** `db/joincodes.ts`, `server/join.ts`, `server/inviteroutes.ts`, `cli/invite.ts` | tables `join_codes`, `members`; a cache of settled codes per process | invite, list, prune, join | two servers race for a code, each with a cache; commits fail; the clock may be set back |
| **Calendar** `shared/alerts.ts` | none | start and end of a civil day and week in a time zone | a day without a midnight, or with two; the start is also the debounce key |
| **Boot** `cli/serve.ts`, `db/config.ts`, `db/migrate.ts`, `cli/mdns.ts` | `server_config`, `schema_version`; the name on the network | validate, migrate, listen, advertise, store name, URL and time zone, admin token, shut down | requests are served before the time zone is stored; migrators race; a crash between any two steps |
| **Client** `cli/setup.ts`, `cli/uninstall.ts`, `cli/settings.ts`, `cli/state.ts`, `cli/jsonedit.ts` | Claude Code's `settings.json`, ccledger's state file | setup, second setup, profiles that share a token, uninstall, leave | two files and a server changed one after the other; the user edits one of them |
| **Dashboard** `web/src/App.tsx`, `api.ts`, `lib/token.ts` | token, range, filter, view, last answers; session and local storage | load, poll, navigate, log in and out, revoke, invite | answers that arrive after what they answer has changed |
| **Queries and charts** `db/queries.ts`, `server/api.ts`, `web/src/lib` | none of their own | totals, series, breakdowns; bands, shares, trends, colours | the server cuts buckets in SQL and the browser lays a grid over them; five views of the same rows must add up |
| **Others** `cli/doctor.ts`, `cli/backup.ts`, `server/dashboard.ts`, prompts, components | none | diagnosis, copy, static files, rendering | I/O |

How they meet. The exporter's POST is authenticated by a member's token, which
Enrolment made and revocation ends. A batch that inserts rows triggers Alerting
after its commit and before the answer is sent; an error there is absorbed and
does not change the answer. Alerting reads `requests`, its rules are written by
the admin's routes, and its windows are Calendar's, in the zone that Boot
stored. The join's member row is what Ingest authenticates. The client carries
the token from POST /join into the environment of Claude Code. The dashboard
reads everything through `/api`, with the admin token that Boot printed.

What makes each part correct:

- Ingest: a request is counted once, for the member who first delivered it; an
  acknowledged batch is stored; a readable one is stored in the end; nothing
  known of a machine is lost; a part of a payload that cannot be used takes
  nothing with it.
- Alerting: one alert per rule, member and window, posted by one delivery; a
  recorded outcome is true; no crossing is missed; no share above 100 percent.
- Enrolment: a code makes at most one member and a member has a code; a refusal
  gives the true reason.
- Calendar: windows of one rule do not overlap, whatever the clocks do.
- Boot: a migration is committed once; what an operator chose stands; a token
  that works was printed; a boot ends.
- Client: uninstall removes what setup wrote and nothing else; no token is
  dropped silently.
- Dashboard: what is shown belongs to one load and to the token in use; the
  gate comes back when it is due and a load settles; the numbers add up.

## 2. Modules

| Module | Role |
|---|---|
| `Ledger` | what ccledger promises about usage, without mechanism: tickets, counts, retirement |
| `Ingest` | POST /v1/logs in detail; defines the refinement `CountsOnce == Ledger!Spec` |
| `Otlp` | the body's decoding and the parser: a request's bytes in, events out |
| `MCIngest` | the instance: payloads, and the events and batches they hold |
| `Alerting` | evaluation, fires, deliveries, the admin's routes |
| `MCAlerting` | the instances: two members, three batches, a budget and a share rule |
| `Invitation` | what a join code is worth, without mechanism |
| `Enrolment` | join codes in detail; defines the refinement `RedeemedOnce == Invitation!Spec` |
| `MCEnrolment` | the instance: four attempts on two codes |
| `Calendar` | civil days and windows in a zone; used by `Boot` and `Badges` |
| `Boot` | several `ccledger serve` on one database, statement by statement |
| `MCBoot` | the instance: two builds, three zones, four command lines |
| `JsonEdit` | the editor of an `env` object that leaves the rest of the text alone |
| `Install` | setup and uninstall of several profiles, over `JsonEdit` |
| `MCInstall` | the instances: settings files and users' edits |
| `Queries` | the aggregates behind `/api`, and its bodies |
| `Charts` | what the browser computes from the bodies, over `Queries` |
| `Badges` | who is over a threshold now, over `Queries` and `Calendar` |
| `Dashboard` | a tab of the dashboard, over `Charts` and `Badges` and a server that changes |
| `MCDashboard` | the instances: five rows around a change of the clock |
| `Counting` | lemmas for the other proofs: a non-empty set of naturals has a least element, and what that stands in for (inductions over numbers, finite sets and sequences); sums over finite sets; places in an order |
| `Calendar_proofs`, `Alerting_proofs`, `Boot_proofs`, `Install_proofs` | theorems of the modules they are named for |
| `Ingest_proofs` | theorems of `Ingest`, of its abstract specification `Ledger`, and of the parser's loop in `Otlp` |
| `Enrolment_proofs` | theorems of `Enrolment` and of its abstract specification `Invitation` |
| `Dashboard_proofs` | theorems of `Dashboard`, over lemmas about `Queries`, `Charts` and `Badges` |

### Ingest

One HTTP request is a *delivery*: a copy of a batch in a *slot*, one of those an
exporter and the server may have open for it at a time, with its phase. The
actions follow the route: `Authenticate` is what the `onRequest` hooks do before
the body is read; `Handle` is the handler, with the transaction of
`ingestEvents` (`InsertRequests` and `UpsertInstalls` together) and the answer;
`StoreFails` is the same handler when SQLite throws. A revocation can come between
`Authenticate` and `Handle`, as it can in the code. `Export`, `Receive`,
`TimeOut`, `Lose` and `Crash` are the exporter, the network and the process, which
are not in the repository: an exporter posts a batch until it gets a 2xx, drops it
on a 4xx and keeps it on a 5xx.

`InsertRequests` states the effect of a whole batch on the table at once: an id
in the table stays, and of the copies inside the batch the first counts.
`UpsertInstalls` likewise: the last non-empty field stands and the seen-window
widens by every event. The code does this event by event; `WriteBatch` is that
loop, one `WriteEvent` after another, and `BatchIsTheLoop` says that the two come
to the same from every reachable pair of tables.

The batches are not made up: `MCIngest` writes payloads, with entries that are
no objects, attributes without a usable value, repeated and dropped keys,
timestamps in each of the forms, and `PayloadsAreRead` requires that
`Otlp!ParseOtlpLogsPayload` reads from them exactly the events the state machine
works with, that the loop of `collectAttributes` gives the same attributes and
the same number of issues, and that a payload cleaned of what cannot be used
reads the same. `CollectAttributes` states what a list of entries comes to at
once, `CollectOneByOne` is the loop, one `SetAttribute` after another. `Otlp!BodyOf` says
which requests are batches at all: by media type, size, and `Content-Encoding`
undone (`DecodeBody`).

Abstractions: a row is its member, install, timestamp and one counter, which
stands for the five the code clamps alike; an install's five descriptive
columns are one (`os`), as they are coalesced alike; `sha256` is injective, so the
digest of a request without ids is the tuple of what is digested; the ways a
body can fail are `Body` (unreadable after authentication, or refused by its
content type before it is read); `MaxTokens` is `Number.MAX_SAFE_INTEGER`.

### Alerting

`Ingest` stores a batch and starts an evaluation in the process that stored it.
The evaluation then goes statement by statement, because each statement is its
own transaction: `LoadRules` (the time and the rules are taken once),
`ReadTotal` and `ReadPeriod` (the two SELECTs of `memberWindowUsage`, once per
window), `Judge` (threshold, then `hasFiredInWindow`), `Claim` (INSERT OR IGNORE
behind the unique index, and the hand-off to the delivery). Any of these
statements may throw, and `runAlertEvaluation` absorbs what is thrown, with the
rules that were left (`GivesUp`): `ClaimThrows` is the foreign key of a rule
deleted meanwhile, `EvaluationFails` a database that is busy or a disk that fails,
at any statement. A process in an evaluation
does nothing else: evaluations are synchronous, so the other actions of a
process require it `Idle`. Another process may act between any two statements.

A delivery is `Post`, `Retry`, `Record`, and `RecordFails` when the UPDATE
throws. `Post` decides what the far end did independently of what the server
learnt: an attempt that timed out may have been taken. `CreateRule`, `PatchRule`
and `DeleteRule` are the admin's routes; a delete takes the fires with it.

Auxiliary variables, read by properties only: `endpoint` (what became of the
POSTs for a fire), `orphaned` (fires whose delivery ended unrecorded), `stale`
(what `CrossingIsAlerted` excuses: pairs of rule and member that no evaluation has
come to since the rule was written, since the rule's window began with rows of the
member already in it, or since the member's last evaluation ended before it came
to the rule, by a throw or with its process). A pair leaves `stale` when the
member's next evaluation loads the rules: from then on the code has to get it
right. `created` stands for the fact
that rule ids are random and never recur; ids are numbers in the order of
creation, which is the order an evaluation takes them in.

Abstractions: time is a count of days; a window is a day or a run of `Week` days;
`cost_usd` is like `tokens`, a sum compared with a threshold; the sums are
over batches, each of which holds `TokensIn` tokens. A patch is one step (the route reads, checks
and writes in one synchronous handler; two processes could interleave there, see
section 6). A rule that `CheckThreshold` refuses changes nothing.

### Enrolment

An attempt is one POST /join. `Preview` is the look `joinWithCode` takes before
its transaction, which may answer at once; `Claim`, `Lose` and `StoreFails` are
the transaction: won, lost and rolled back, or failed. The transaction is
BEGIN IMMEDIATE, so it is one step; the look before it is another, and other
processes come between. `RowSeen`, `AfterLook`, `Remember` and `Forget` are the
cache of a process, which is filled by looks and, before the commit, by a claim.
A commit that fails is the second disjunct of `StoreFails`. `Invite` and `Prune`
delete what has expired unspent, in the same way. `SetBack` moves the wall clock
back.

Auxiliary variables: `issued` (codes are random and never recur), `latest` (the
latest the clock has been), `undone` (codes whose spending was remembered and
rolled back), `grant` (the token each attempt was answered with).

Abstractions: names, hostnames and the code's spelling are left out; the token is
the member's id; `used_at` and `member_id`, set by one UPDATE, are `usedBy`.

### Calendar and Boot

`Calendar` takes a zone as what a formatter makes of it, an offset at each
instant. `StartOfCivilDay` is the code's two offset passes and its bisection
when the date has no midnight, written as a recursive function of what is left of the
search; `WindowBoundsAt` puts both ends on civil dates. `Steady` says what the
time-zone data, which are not in the repository, have to be like around the start
of a day for the code's answer to be the right one.

A process of `Boot` goes from `Start` through `Migrate` (one transaction per
migration, with its stamp; the version itself is read outside, at `Start`),
`Listen`, `Advertise`, `SetName`, `SetUrl`, `ReadZone` and `WriteZone` (two
statements, unlike the name's one), `EnsureAdmin` and `ShowToken` to serving. It
serves requests (`Evaluate`) while it advertises, before the zone is stored.
`Signal` comes where the process awaits, `Exit` follows, and `Crash` comes
anywhere; another process may act between any two steps. What a migration does
to the tables is how often it was committed.

Auxiliary variables: `shown` and `lost` (what became of tokens), `orphans` (names
nobody can withdraw), `raced` (a zone written over one stored after it was read).

### Install and JsonEdit

A text is a sequence of members with the whitespace in front of and behind each;
`AppendMembers`, `ReplaceMemberValue` and `RemoveMembers` cut and splice by
spans, as `cli/jsonedit.ts` does, so that what is left after an uninstall can be
compared with what was there byte for byte (up to the kinds of whitespace the
code tells apart). A value is a set of atoms: a token, a pair of the label, what
a user wrote. Of the five keys setup writes, the three whose value is the same for
everybody are one key here (`exporter`), as every command takes each by itself and
all three alike; the endpoint and the header are the two the code looks into. A
bearer may be one that a join of this server issued (named for its code), one
issued by another ccledger (`member`, of the same form) or any other (`bearer`):
`tokenOfHeaders` takes each of them, `looksLikeCcledgerConfig` the first two, and
only the first is known to `POST /leave`.

A command of `Install` holds what it has read across its prompts and its calls:
`BeginSetup` or `BeginSibling` (the token of another profile), `Join` (or refused, or the
reply lost with the code spent), `WriteEntries`, `WriteAttribute`, `WriteState`; and
`BeginUninstall`, `RemoveKeys` or `Restore`, `RemoveAttribute`, `Notify`, `Forget`,
`Cancel`. `Edit` is the user or another program on the settings, `LoseRecord` on
the state file, `Crash` ends a command between two writes.

Auxiliary variables: `before` (the settings as setup found them), `edited`,
`torn`, `leaving`, `written_off` (tokens lost by a fault or an edit, or that the
user was told to revoke), `burned`.

### Queries, Charts, Badges and Dashboard

`Queries` states each SQL aggregate as an operator over a set of rows, with its
half-open range and its filter, and the bodies of `/api` from them. `Charts` is the
browser's arithmetic: the grid of buckets, the bands with their fold, rounded
shares that keep the total, trends, bars, colour slots. `Badges` computes who is
over a threshold, in the server's zone, and which of them were alerted already.

`Dashboard` has the three effects of `App.tsx` as `loads`: what each has asked
and which answers came. `Render` says which effects run again, and aborts what
they had under way, when a value of `Deps` changes; an aborted load of the page
may still come (`old`, `Superseded`). `ServeRead` answers from the tables as they
are at that moment, each read for itself, so the answers of one load may differ.
`LandPage`, `LandMember`, `LandInvites` and `Reject` are the `then` and `catch`
branches; `SendWrite`, `ServeWrite`, `WriteDone` and `WriteFailed` a revocation,
an invite or a rule; the user picks ranges, filters, members and views, locks,
submits a token, reloads, reopens the tab, opens the link with a token. Rows
arrive late, members join and the admin token is replaced meanwhile.

Abstractions: the token columns and the cost, summed alike, are one; texts,
formats and rendering are left out; one tab and one write at a time.

## 3. What the runs check

Deadlock is not checked in any run: a system whose batches are all stored, whose
codes are all spent and whose clock is at its bound really has nothing to do.

| Run | Distinct states | Question |
|---|---|---|
| `ingest` | 242,394 | Is each request counted once (`CountsOnce`, the refinement of `Ledger`) and in the end (`EventuallyCounted`), is what was acknowledged stored (`AckedIsStored`), does a machine's seen-window cover its requests whatever the order of arrival (`SeenWindowCovers`), is nothing known lost (`KnowledgeKept`), is the batch's effect that of the loop (`BatchIsTheLoop`), and are its events those of its payload (`PayloadsAreRead`)? |
| `alerting` | 3,269,988 | With two processes, two rules, an admin, midnight, and a restart or a statement that throws: at most one delivery's POSTs per fire (`NotifiedOnce`), true outcomes (`OutcomeIsTrue`), pending fires owned (`PendingIsOwned`), shares at most 100 (`ShareIsAShare`), nobody over a tokens rule left without a fire (`CrossingIsAlerted`)? |
| `alerting_rules` | 248,212 | With two rules in one evaluation: does a pending fire settle, unless its process ended or its record could not be written (`DeliverySettles`)? |
| `alert_pending_forever` | violated | Does a fire end delivered or failed, as `shared/constants.ts` says (`PendingResolves`)? |
| `alert_share_missed` | violated | Can only the sender of a batch newly cross a rule, as `server/alerts.ts` says (`OnlySenderCrosses`)? |
| `enrolment` | 1,216,676 | Are tokens backed (`TokensAreBacked`) and members invited (`MembersAreInvited`), do caches agree with the table (`CacheAgrees`), are refusals true (`RefusalsAreTrue`), and does a code make one member (`RedeemedOnce`, the refinement of `Invitation`)? |
| `code_burned` | violated | Does a cache hold only conclusions that cannot be revoked, as `db/joincodes.ts` says (`CacheIsFinal`)? |
| `boot` | 446,880 | With two builds that boot on one new database, a crash and signals: are migrations committed once and in order (`SchemaIsSound`), do chosen names and zones stand (`ChoiceStands`), is the admin token known to somebody (`TokenIsKnown`) and replaced only on request (`AdminStands`), are alerts keyed by windows that do not overlap (`FiresAreKeyed`), is the name withdrawn (`NameIsWithdrawn`), does a boot end (`BootSettles`)? |
| `install` | 3,051,390 | Is every token in force accounted for (`TokenAccountedFor`), can what setup wrote be taken out (`Undoable`), is a finished install healthy (`InstallIsHealthy`), does uninstall restore (`UninstallRestores`), and is nothing of the user's lost but what the code says it takes (`UserKeysKept`)? |
| `install_burned` | violated | Does setup refuse what it can see to refuse before it spends the code, as `cli/setup.ts` says (`EarlyRefusal`)? |
| `dashboard` | 225,341 | Is what a tab shows of one load and of its token (`TabIsTrue`), does the gate come back only when due (`GateIsDue`), do loads settle (`LoadSettles`), and do the numbers of every page that lands add up, badges included (`NumbersAgree`)? |
| `dashboard_detail` | violated | Does a page never show two ranges without saying so, as `App.tsx` says (`MemberPageIsOneRange`)? |

Each property of a passing run has a mutant in `PROJECT.json`: a definition with
a plausible bug in its place, under which the run finds the property violated.

### Bounds, and why they are enough

- `ingest`: two members, one machine, two batches with up to two open copies of
  each and a third that is malformed, one fault of any kind and at any time, two
  instants. The hazards need two copies of a batch (a retry that overtakes the
  first), a second sender of the same id and machine, a repeated id inside a
  batch, an event without ids, one without a timestamp, and one that stores
  nothing; the instance has each. `MaxTokens` is 2, so that a count of 3 is
  clamped and the digest, taken before the clamp, is not. Its payloads pass
  through every branch of the parser but those for texts longer than a bound.
- `alerting`: two processes is the overlap of a restart, and they are alike (the
  run's symmetry). Two rules, so that an evaluation has one behind it and one
  before it when it is cut short. A rule may be a daily budget that posts, one
  that does not, or a share that the routes refuse. Of two batches one crosses the
  budget by itself and is dated a day after the first, when it may arrive before
  its day has come. Days 0 and 1 give a midnight, which may overtake an
  evaluation. `Retries = 1` has a first, a last and a failing attempt. One fault: a
  restart, an unwritten record, or a statement that throws. Weeks of several days
  and a member who joins the share are in `alert_share_missed`, and any of them in
  the proofs.
- `alerting_rules`: two weekly rules, one process, two batches, two days, one
  fault, one retry. Liveness doubles the graph, hence the smaller instance.
- `enrolment`: three attempts on one code over two servers is one more than a
  race needs; a second code fills a cache of one; `Ttl = 1` with instants 0 to 2
  passes through open, expiring and expired; two faults let a failed commit and
  a clock set back meet.
- `boot`: a build of two migrations and one of one meet in either order; two boots
  and one crash give the overlap, the crash between any two steps, and a boot
  after a crash. Three zones have a day without a midnight, one with two, and one
  whose clock goes back after midnight; the three instants lie around the
  transition. Four command lines set each option at least once, against one
  that sets none; three tokens let a second boot rotate what the first issued.
- `install`: two profiles and two codes, so that a token may be shared or not; one
  profile begins without a file, the other with an `env` of the user's that has
  labels. To the latter two mishaps happen: any two of an edit, a lost record, a
  lost reply and a crash, at any point of any sequence of setups and uninstalls of
  both. That is what it takes to lose a record after an edit, or to have a bearer
  edited and then taken over. An edit sets the exporter or the endpoint to something
  else, the header to a bearer of another collector or of another ccledger, or adds
  a label. Other settings, and more mishaps, are left to the proofs, which are for
  any. The two codes are alike (the run's symmetry).
- `dashboard`: two tokens, so that one can be out of date; three events of the user
  or the system beyond the load the tab begins with (a range changed while a row
  arrives while the token is replaced); one lost request. Five rows fall before,
  on and after a change of the clock, with and without source and session. The
  limits (`MaxBands`, `MaxBars`, `SessionsLimit`) are 1 or 2, so that folding
  happens. `MaxGrid` is not reached: the code cuts a chart short only for a range
  of more than 2000 days typed by hand, and then on purpose
  (`web/src/lib/series.ts:34-40`).

### Fairness, and why the code justifies it

`Ingest`: an exporter keeps posting what it holds, and a delivery under way goes
on: weak fairness of `Export` per batch and of `Advance` per delivery. Faults,
revocations and time owe nothing; faults are finite, since a network that loses
everything delivers nothing. `Alerting`: weak fairness of a process's evaluation
(a synchronous loop) and of its deliveries (`fetch` has a timeout, so every
attempt is answered or abandoned, and the loop of `deliverWebhook` is bounded).
`Boot`: weak fairness of `Advance` per process; the one wait on the outside world,
the announcement, has a time limit in `advertise`, so it is a step of its own.
`Dashboard`: weak fairness of `Progress`: requests are answered or fail, and
settled promises run. The page's `fetch` has no time limit of its own; that a
request ends at all is the browser's doing. No fairness for restarts, crashes,
signals, admins, users, batches or midnight; `Install` states none.

## 4. What is proved

For every value of the constants, subject to the assumptions named in the
modules, which TLC evaluates in every run. Most are about types, or keep `NULL`
and the names of profiles out of sets of other things (`AlertIdle`,
`InstallNull`, `InstallNames`, `InstallEntries`). The others:

- `AlertBatches`: there are finitely many members, so that they can be counted,
  and the tokens of a batch are not negative, which `Ingest!TypeOK` proves of each
  row.
- `BootAssumption`: some build is the newest, which finitely many servers have.
- `BootZones`: around the first days of the windows that alerts come in, a zone is
  `Steady`: at most a day from UTC, one change at most, no larger than the gap the
  code searches, and, where the change takes the clock over midnight east of
  Greenwich, from midnight on and not from before it. It is about time-zone
  data, not about code, and it is as weak as it can be: TLC, over all small
  zones, finds a start of day that is late for every zone that fails it in the last
  point alone. A country that moves across the date line is not steady.
- `InstallSettings`: no settings file holds a token of this server before a setup
  wrote it there. Nor does a user write one into another file by hand (`Edits`);
  bearers of other servers they may write anywhere.
- `DashboardBegins`: no member joins twice, and those with rows at the start are
  the first so many to join.
- `DashboardRows`: finitely many rows at the start; counts and colour hashes are
  natural numbers; rows of nobody (`Placeholder`) are all from before, because a
  row that arrives later is its sender's.
- `DashboardNames`: what a table is ordered by when values tie, names of members
  and models and ids of sessions, is a strict total order. Two members of one
  name are left out: the code orders them as they come.
- `DashboardRules`: finitely many rules, of distinct ids; the server's zone is
  within a day of UTC and `Steady` around the ends of the windows that are looked
  at, and no midnight comes twice at an instant the badges are for. That last one
  excludes an hour in which the code's own window does not hold its instant
  (section 5), so that a member's share is of another window than it says.
- `DashboardDays`: the browser's zone is within a day of UTC, and no grid that can
  be asked for is cut short by `MaxGrid`.

Along which argument:

- **Ingest** (`Ingest_proofs`). `TypeCorrect`; `AckedStored`, inductive together
  with types because rows are never removed (`RowsStay`); `WindowCovers`,
  inductive because a new row's own event is among the sightings of the same
  transaction (`NewRowIsSeen`) and windows only widen (`WindowsWiden`);
  `KnowledgeIsKept`; and `ImplementsLedger`: each step is a ledger step or a
  stutter (`Authenticate` admits, `Handle` records, `StoreFails` and `Crash`
  abandon, `RevokeMember` retires, the rest stutters). `BatchesAreLoops` is about
  batches of any length, so it needs an induction that the provers cannot do as
  such: `After(b, n)` is what the first n events make of the tables taken all at
  once, `AfterNext` that one event more does to it what the loop does, and of the
  places where loop and `After` differ there would be a least one. The invariant it
  needs is `Spans`, that a window read from the table is one.
- **Ledger** (`Ingest_proofs`) and **Invitation** (`Enrolment_proofs`).
  `CountedForGood` and `CountedOnTicket` hold of the abstract ledger, and so,
  through the refinement, of `Ingest`: a count never moves to another member, and
  is made only by a delivery authenticated earlier. `CodesAreDistinct` and
  `MadeForGood` likewise of codes.
- **Parsing** (`Ingest_proofs`). `CollectedAsTheLoop`: whatever the entries and
  however many, the attributes that `Otlp!CollectAttributes` gives, and the number
  of issues, are those of the loop. `Collected(..., n)`, what the first n entries
  come to at once, satisfies the loop's equation, and of the places where two
  functions that satisfy it differ there would be a least one. That the loop exists at
  all is part of it. `UnusableTakesNothing`: if entries that cannot be used are left
  out and the others keep their order, the attributes are the same; the last
  usable entry of a key is still the last one, wherever it has moved to.
- **Alerting** (`Alerting_proofs`). `NotifiedOnce`, `OutcomeIsTrue` and
  `PendingIsOwned` are not inductive: that a claim is the first one depends on
  what cannot be seen in `alert_fires` once a rule is deleted. `FireInv` adds that
  a fire still open was never posted (`OpenIsUntouched`), that two deliveries
  are never about one fire (`OneDelivery`), that the attempt number counts the POSTs
  (`PostsAreCounted`) and that an answer held is what the far end did
  (`AnswersAreTrue`); there is one lemma per action that touches fires.
  `SharesAreShares` has its own invariant, `SumsInv`: a member's sum read is
  at most the member's sum now, since rows are only added and a sum over more
  batches is not smaller (`Counting!SumOfPart`), and a period read afterwards is at
  least that. `CrossingsAreAlerted` speaks of the time when nobody
  evaluates the member; `WatchInv` is about all times: while a tokens rule is
  crossed without a fire and nothing excuses it (`Overdue`), some process is on
  its way to it (`Watches`): it has yet to load the rules, or has the rule as it
  is now, for today's window, on its list, and no sum read that would pass over it.
  An evaluation cut short excuses only what it had not come to, which `WatchStep`
  shows of each way to end one. `MidnightWatches` is about the day that changes: a
  rule whose window goes on was overdue before, and one whose window begins can be
  crossed only by rows dated ahead, since a rule asks for something (`RulesAsk`).
- **Enrolment** (`Enrolment_proofs`). `EnrolInv` adds to the run's invariants that
  a code's member is in the table (`UsedAreMembers`), that rows and cached rows
  belong to issued codes (`RowsAreIssued`), and that times taken are not after
  `latest` (`TimesArePast`); from it `BackedTokens`, `InvitedMembers`,
  `CachesAgree`, `TrueRefusals` and `ImplementsInvitation`.
- **Boot** (`Boot_proofs`). `BootInv` makes the run's invariants inductive. That
  migrations are committed once is not, by itself: a migrator goes by a version it
  read earlier. `Schemas` adds that the database always holds the first so many
  migrations, once each (`Gapless`), and that what a process believes migrated is
  there (`Sound`), so a migrator that has been overtaken fails on the stamp rather
  than leaving a gap. `Names` adds where a process stands that holds its name
  (`Holds`). From it `TypeCorrect`, `SchemaSound`, `NamesWithdrawn`, `TokenKnown`;
  and, as action properties, `AdminKept` and `ChoicesStand`.
- **Calendar** (`Calendar_proofs`). `FiresKeyed`, of `Boot_proofs`, rests on the code's two offset passes and
  its bisection. `BisectionBisects`: the recursive function is well defined on
  spans of any length (a shortest span at which two candidates differ, or at which
  there is none, leads to a shorter one); `BisectFinds`: where dates do not go
  back it finds the first instant of the date; `StartOfDay`: in a steady zone
  the code's start of a day is at most the first instant of its date and after the
  last of the date before, but for an hour repeated across midnight;
  `StartsInOrder`: later days start later, so windows with different starts do not
  overlap (`WindowsApart`). `InOwnWindow` is the other half: where the zone is steady
  around both ends of a window, an instant lies in the window it is given, unless its clock
  comes to a midnight twice. `Keyed` adds to `BootInv` that a fire exists only once
  a zone has been decided on.
- **Install** (`Install_proofs`). First what the edits of a sequence of members do,
  whatever its length: `AppendAdds`, `ReplaceChanges` and `RemoveKeeps` say which
  keys are there afterwards and with which values. `TokensAreAccountedFor` needs
  `TokensInv`, which says of each file, record and command whose token it has
  (`FileOk`, `RecordOk`, `CommandOk`), and of an uninstall that asks that the file
  is the one it read or has been edited since (`Following`). `UninstallFindsIt` and `InstallsAreHealthy` need `InstallInv`, which adds
  `UndoInv`: settings with a token have the endpoint and the header, or an
  uninstall that went by an outdated record has taken out the endpoint. The proof is
  what found that case: `Undoable` was stated without `Outdated`, which one mishap
  cannot violate and three can. An uninstall cut short leaves its record, a
  setup cut short before its own does not replace it, and the next uninstall removes
  by it the endpoint, leaving a header that no longer looks like ccledger's.
  `UsersKeepTheirs` is the action property that no step of a command changes or
  drops an entry of the user's, but for what uninstall is said to take, from the
  same lemmas: `Removable` names, without a record, only keys that setup writes, and
  `Without` takes no others.
  `UninstallsRestore` is about the text, whitespace included. `AppendText`,
  `ReplaceText`, `RemoveRest`, `RemoveMiddle` and `WrittenText` say what each edit
  leaves at each place, and `AppendedThenRemoved` that removing undoes appending
  exactly if the text was `Tidy`: no space in front of its commas. That is what the
  round trip in `writeEnvEntries` tests, and why the test is needed. `RestoreInv`
  then has the settings nobody else wrote at one of the stages between what setup found
  and what uninstall leaves (`Full`, `Taken`, `Undone`), and the record true of what
  setup found (`Made`, `Recorded`).
- **Dashboard** (`Dashboard_proofs`). `TabInv` says of each load under way that it is
  the one the tab would send out now (`LoadOk`), of what came of it that it
  answers that load from tables that held no more than the server's now
  (`Brought`), and of what is shown that its answers are of one request, by the
  token in use (`PageOk`, `DetailOk`). It is inductive because `Render` aborts a
  load whenever a value of its `Deps` changes. From it `TypeCorrect`, `TabsAreTrue`
  and, as an action property, `GatesAreDue`.
- **What a page shows** (`Dashboard_proofs`). `NumbersAlwaysAgree` proves
  `NumbersAgree` of any rows, members, rules, zones and ranges. `DataOk` adds to
  `TabInv` that whatever is shown, or on its way, was read from tables as they
  were once (`TablesOk`), for a range that may be asked for (`RangeOk`), and is kept by
  every step. The rest is about one answer (`PageIsRight`). `TablesAddUp`: the
  tables of members, models and profiles are groups of the rows that the total sums
  over (`Counting!SumGroups`), a row has one source or another, the bars fold
  their tail without loss, and rounded shares come to the whole, each within one
  unit of its exact value, because the remainders to be handed out are fewer than
  the parts (`UnitsAreShared`). `ChartsAddUp`: the bands and their fold sum to the
  points, and a trend to its member, because the grid the browser lays over the
  range has the bucket of every instant in it, once (`GridCovers`). `BadgesAreTrue`: a
  rule is on a member's list of badges once if the member is over it and never
  otherwise, the list begins with the most urgent, and its windows hold the instant
  (`Calendar_proofs!InOwnWindow`). `ColoursDiffer` and `ColoursStay`: slots are dealt
  in the order of joining, so that one more member changes nobody's, and while there
  are slots left no two members have one. Sums, folds and orders are over sets and
  sequences of any size: `Counting` and the lemmas here use a least counterexample
  where one would say "by induction".

Only model-checked: what must happen in the end (`EventuallyCounted`,
`DeliverySettles`, `LoadSettles`, `BootSettles`), which is out of the proof
system's reach; `PayloadsAreRead`, which is about the payloads of the instance (its
attribute loop and what a cleaned list of entries comes to are proved of all); and
the five violations.

## 5. Where the code and its comments disagree

- **A share may cross through somebody else's batch** (`alert_share_missed`).
  `server/alerts.ts:12-17` concludes from everybody else's usage lowering a share
  that nobody but the sender can newly cross. `SHARE_MIN_CONTRIBUTORS` makes the
  condition depend on how many members have usage, and another member's first
  batch of the window raises that. The member over the threshold is alerted only
  by a later batch of their own.
- **A fire may stay pending for good** (`alert_pending_forever`).
  `shared/constants.ts:197-201` has every fire delivered or failed within seconds.
  A process that ends during a delivery, a clean shutdown included, leaves its
  fire pending, nothing at boot looks for such fires, and the debounce keeps the
  rule silent for the rest of the window.
- **A failed commit burns a code in one process** (`code_burned`).
  `db/joincodes.ts:10-12` has the cache hold only what can never be revoked. The
  claim is remembered before the commit that makes it so.
- **Setup burns a code on settings it could have refused** (`install_burned`). The
  header of `cli/setup.ts` has every check that can refuse come before the join.
  An `env` entry that is not an object (`settings.ts:437`), and a file from which
  taking the keys out would not give the text back (`settings.ts:478`: a key that
  is already there with the value setup would write, or whitespace before a
  comma), are refused in `writeEnvEntries` only, after the code has been spent.
- **A member's page shows two ranges** (`dashboard_detail`). `App.tsx:104-106` is
  about just this. The chart is of the main load and the tiles, models and
  sessions of another, and only the first of them says that it loads or failed.

Smaller ones, met while modelling, that no run checks (the model does what the
code does in each of them):

- Boot. `shared/alerts.ts:269` has the window contain its instant; in the hour a
  clock repeats across midnight it starts after it (lines 231-236 allow for that,
  and `FiresAreKeyed` excepts it). `cli/serve.ts:171` has an explicit `--timezone`
  always win; of two boots that overlap, the one without it can write the old zone
  back (`raced`). A signal during the wait for mDNS leaves the name on the network
  (`orphans`). Of two migrators one fails on the stamp and has to be started again.
- Client. Uninstall leaves `"env": {}` where setup made it. A token that two
  profiles share is revoked by the first that leaves. A pair `claude_profile` of the
  user's own is dropped and labels are normalised. `findReusableMembership` looks for
  a profile "whose token still lives in its settings file" (`cli/setup.ts:287`), and
  takes the bearer that lives there now: after an edit that may be another
  collector's, and the new profile's doctor gets a 401 though nobody edited it
  (`InstallIsHealthy` excuses that, and nothing else about it). Without a record
  uninstall takes keys that a user has edited, where its header has it "leave a key
  someone has since edited alone" (`cli/uninstall.ts:6-7`); and it tells the server of
  the endpoint that is set now, which may be another one, whose 401 it takes to mean
  that there is nothing left to revoke. An uninstall cut short before
  it told the server never tells it. A setup cut short before its record leaves the
  label. The keys are removed from the text that was read before the prompts.
- Dashboard. "A 401 from any request puts the gate back" (`App.tsx:95`) does not
  hold of rules and invites. The token is "never written to storage"
  (`App.tsx:92-96`) but is kept for the session, and for good when asked. An answer
  to a revocation sent with an old token can drop a newer one. A relist of
  invites may land after a lock. `loading` stays on when the range becomes invalid
  during a load. The failure of a member's load is erased by the main load that
  lands after it. The range "today" is empty, and refused, at midnight sharp.
- Parsing. The digits branch of `toInt` has no lower bound, and a very negative
  text becomes a number that is not exact, where the comment prefers none.

## 6. What is not modelled, and what is left

- **PATCH in two statements.** A rule is read, checked and written in one
  synchronous handler, one step of `Alerting`. Two processes that serve the admin
  at once can interleave there: one makes a rule a share, the other raises its
  threshold, each checks against what it read, and a share above 100 percent is
  stored. It needs the overlap of two servers and two admins; it would be a
  module of its own.
- **A badge's two SELECTs.** `Badges` computes from one state of the tables. A second
  process that stores between the period's sum and the members' could put a share
  above 100 on the page for one refresh.
- **Uninstall over an edit** made during its prompts is in `Install`; `UserKeysKept`
  has it undo that edit and lose nothing else.
- **Two tabs.** A tab that is refused with an old token erases what another one has
  remembered, and "if both exist they are the same value" (`lib/token.ts:95`) is not
  so. `Dashboard` has one tab.
- **Client**: the discovery of profiles, backups and their names (two in a second
  collide), two config directories of one base name, file modes.
- **Dashboard**: sorting by a chosen column, the list of a member's machines, the
  lists of fires, the alert form, texts.
- **Alerting**: the list of fires, the check of a webhook's address (a URL parser),
  the wording.
- **Proofs**: of `Otlp`, what is above a list of attributes (the nesting of
  resources, scopes and records) is checked on the instance's payloads only.
- Left out for good: static files, rendering, prompts and output, the wording of
  the doctor, the backup's page copy (SQLite's own; two backups to one target
  share a `.partial` file).
